---- MODULE Spec2Model ----
(***************************************************************************)
(* InvestAssist: the debate orchestration (AnalystManager, DebateRecorder,  *)
(* BearAnalyst/BullAnalyst), the retrying generation client (LLMModel) and  *)
(* the provider cache (DataSourceBase), the news crawler (SinaNewsCrawl),   *)
(* the market analyzer (ComprehensiveMarketAnalyzer), the chat bot         *)
(* (TradingChatBot) and the trading-date functions, as state machines.     *)
(*                                                                         *)
(* Text is modelled as a sequence of tokens: a Python str is a Seq of      *)
(* short strings, concatenation is \o, "x in s" is token containment.      *)
(***************************************************************************)
EXTENDS Integers, Sequences, FiniteSets, TLC

\* ------------------------------------------------------------------ bounds
\* conduct_full_analysis calls made on one AnalystManager in a behaviour
MaxRuns == 2
\* changes of the generation backend's health in a behaviour
MaxFlips == 2

\* ------------------------------------------------------------ text helpers
None == "None"
NL == "\n"

Contains(text, tok) == \E i \in 1..Len(text) : text[i] = tok

RECURSIVE JoinLines(_)
\* "\n".join(parts), every part a token sequence
JoinLines(parts) ==
    IF parts = <<>> THEN <<>>
    ELSE IF Len(parts) = 1 THEN parts[1]
    ELSE parts[1] \o <<NL>> \o JoinLines(Tail(parts))

\* Python truthiness of a str
Truthy(text) == text # <<>>

\* --------------------------------------------------- generation (abstract)
\* What one LLMModel.a_run call gives its caller: a response whose content
\* is a text (possibly empty), or the exception of its last attempt.
BackendModes == {"up", "blank", "down"}
SpeechContents == {<<"c1">>}
ExceptionMessages == {"Request timed out."}

\* the outcomes a_run can have while the backend is in mode m, for a call
\* whose successful answers are drawn from `answers`
a_run(m, answers) ==
    CASE m = "up"    -> {[kind |-> "response", content |-> c] : c \in answers}
      [] m = "blank" -> {[kind |-> "response", content |-> <<>>]}
      [] m = "down"  -> {[kind |-> "raise", msg |-> e] : e \in ExceptionMessages}

\* ------------------------------------------------------------- providers
Providers == {"financial", "hot_money", "price", "news", "stock_analysis"}

\* what one provider's get_data hands the analyst: a frame with a row of
\* content, a frame with a row whose content is empty, a frame without rows,
\* or an exception (SinaNewsCrawl.get_data post-processes outside its try)
AllContent == [p \in Providers |-> "content"]
AllEmpty == [p \in Providers |-> "empty"]
OneBlank == [p \in Providers |-> IF p = "financial" THEN "blank" ELSE "content"]
NewsRaises == [p \in Providers |-> IF p = "news" THEN "raise" ELSE "content"]
ProviderScenarios == {AllContent, AllEmpty, OneBlank, NewsRaises}

\* pandas: df.empty
df_empty(r) == r = "empty"

\* ------------------------------------------------------------ DebateRecorder
Speakers == {"bear", "bull"}
SpeakerTag(speaker) == IF speaker = "bear" THEN "Bear Analyst: " ELSE "Bull Analyst: "

\* DebateRecorder.__init__: the debate state of a new recorder
InitDebateState ==
    [history |-> <<>>, bull_history |-> <<>>, bear_history |-> <<>>,
     current_response |-> <<>>, count |-> 0, round |-> 0, turn |-> "bear"]

\* the fixed texts of debate_recorder.py lines 244/309 and 248/313
SpeechEmptyFallback == "speech generation failed"
SpeechRaiseFallback == "speech failed: "

\* a variant whose handler answers like the handler of _execute_speech
\* (line 183): the speaker's name, not its tag
GenerateSpeechUntaggedHandler(speaker, out) ==
    IF out.kind = "response"
    THEN IF Truthy(out.content)
         THEN <<SpeakerTag(speaker)>> \o out.content
         ELSE <<SpeakerTag(speaker), SpeechEmptyFallback>>
    ELSE <<speaker, SpeechRaiseFallback, out.msg>>

\* _generate_bear_speech / _generate_bull_speech: the tagged text, or the
\* persona's fallback when a_run returns nothing or raises
_generate_speech(speaker, out) ==
    IF out.kind = "response"
    THEN IF Truthy(out.content)
         THEN <<SpeakerTag(speaker)>> \o out.content
         ELSE <<SpeakerTag(speaker), SpeechEmptyFallback>>
    ELSE <<SpeakerTag(speaker), SpeechRaiseFallback, out.msg>>

\* _execute_speech: _generate_*_speech catches every Exception itself, so the
\* handler of _execute_speech is never entered
_execute_speech(speaker, out) == _generate_speech(speaker, out)

\* a variant of _record_speech that keeps only the latest speech
RecordSpeechLatestOnly(records, round_num, turn_num, speaker, response) ==
    <<[round |-> round_num, turn |-> turn_num,
       speaker |-> speaker, response |-> response]>>

\* a variant of _record_speech that does not record a fallback speech
RecordSpeechSkipsFallback(records, round_num, turn_num, speaker, response) ==
    IF \E i \in 1..Len(response) : response[i] = "speech failed: "
    THEN records
    ELSE Append(records, [round |-> round_num, turn |-> turn_num,
                          speaker |-> speaker, response |-> response])

\* _record_speech
_record_speech(records, round_num, turn_num, speaker, response) ==
    Append(records, [round |-> round_num, turn |-> turn_num,
                     speaker |-> speaker, response |-> response])

\* a variant that joins the speeches without the line break
AppendLineNoBreak(s, response) == s \o response

\* s += "\n" + response if s else response
AppendLine(s, response) == IF Truthy(s) THEN s \o <<NL>> \o response ELSE response

\* a variant of _update_debate_state that starts a round at every odd count
UpdateDebateStateRoundOnOdd(st, speaker, response) ==
    LET count == st.count + 1 IN
    [history |-> AppendLine(st.history, response),
     bear_history |-> IF speaker = "bear" THEN AppendLine(st.bear_history, response)
                      ELSE st.bear_history,
     bull_history |-> IF speaker = "bear" THEN st.bull_history
                      ELSE AppendLine(st.bull_history, response),
     current_response |-> response,
     count |-> count,
     round |-> IF count % 2 = 1 THEN st.round + 1 ELSE st.round,
     turn |-> IF speaker = "bear" THEN "bull" ELSE "bear"]

\* _update_debate_state
_update_debate_state(st, speaker, response) ==
    LET count == st.count + 1 IN
    [history |-> AppendLine(st.history, response),
     bear_history |-> IF speaker = "bear" THEN AppendLine(st.bear_history, response)
                      ELSE st.bear_history,
     bull_history |-> IF speaker = "bear" THEN st.bull_history
                      ELSE AppendLine(st.bull_history, response),
     current_response |-> response,
     count |-> count,
     round |-> IF count % 2 = 0 THEN st.round + 1 ELSE st.round,
     turn |-> IF speaker = "bear" THEN "bull" ELSE "bear"]

\* a schedule in which the bull opens each round
ScheduledSpeakerBullFirst(turn_num) == IF turn_num = 1 THEN "bull" ELSE "bear"

\* conduct_debate, lines 96-103: the speaker of a turn
ScheduledSpeaker(turn_num) == IF turn_num = 1 THEN "bear" ELSE "bull"

\* the word the prompt of a persona looks for in the latest utterance
\* (lines 210 and 275): the other persona's name
OpposingWord(speaker) == IF speaker = "bear" THEN "Bull" ELSE "Bear"

\* whether a token has the word as a substring: the tags of lines 242 and
\* 307 have their persona's name
HasWord(tok, word) ==
    \/ tok = "Bear Analyst: " /\ word = "Bear"
    \/ tok = "Bull Analyst: " /\ word = "Bull"

\* "word in text"
WordIn(word, text) == \E i \in 1..Len(text) : HasWord(text[i], word)

\* the placeholder of lines 210 and 275
ZhNone == "zh:zanwu"
NoRebuttal == <<ZhNone>>

\* a variant that never shows a rebuttal target
OpposingViewNone(speaker, state) == NoRebuttal

\* lines 210 and 275: the latest-opposing-view section of a speech prompt
opposing_view(speaker, state) ==
    IF WordIn(OpposingWord(speaker), state.current_response)
    THEN state.current_response
    ELSE NoRebuttal

\* a variant in which every persona argues from the bull's analysis
SpeechBaseBull(speaker, data) == data.bull_analysis

\* lines 190 and 255: the persona's base analysis, from the initial data
speech_base(speaker, data) ==
    IF speaker = "bear" THEN data.bear_analysis ELSE data.bull_analysis

\* the prompt of _generate_bear_speech / _generate_bull_speech (lines
\* 193-210, 258-275): round, number of the speech, base analysis, debate
\* history, latest opposing view
speech_prompt(speaker, state, data) ==
    [speaker |-> speaker,
     round |-> state.round,
     number |-> state.count + 1,
     base |-> speech_base(speaker, data),
     history |-> state.history,
     opposing |-> opposing_view(speaker, state)]

\* ------------------------------------------------- BearAnalyst / BullAnalyst
Analysts == {"bull", "bear"}

\* the fixed texts of bear_analyst.py lines 106, 220 and 224
AnalysisFailed == " analysis failed: "
AnalysisEmptyFallback == " analysis generation failed"
Symbol == "000001"

NoSources == [p \in Providers |-> FALSE]

\* _generate_bear_analysis: the content, or a fallback text; never raises
_generate_analysis(analyst, out) ==
    IF out.kind = "response"
    THEN IF Truthy(out.content) THEN out.content
         ELSE <<Symbol, analyst, AnalysisEmptyFallback>>
    ELSE <<Symbol, analyst, AnalysisFailed, out.msg>>

\* BearAnalyst.analyze, as one step of the gather in _get_initial_analyses.
\*   trigger_ok = FALSE: get_smart_trading_date raises at line 52, the handler
\*     at line 100 reads trade_date, which is unbound, and raises itself;
\*   a provider raises: the handler returns the degraded result, no a_run;
\*   otherwise one a_run call, whatever the providers returned.
\* calls = the number of a_run calls made.
analyze(analyst, trigger_ok, prov, out) ==
    IF ~trigger_ok
    THEN [raised |-> TRUE, analysis |-> <<>>, data_sources |-> NoSources, calls |-> 0]
    ELSE IF \E p \in Providers : prov[p] = "raise"
    THEN [raised |-> FALSE, analysis |-> <<analyst, AnalysisFailed, "provider error">>,
          data_sources |-> NoSources, calls |-> 0]
    ELSE [raised |-> FALSE, analysis |-> _generate_analysis(analyst, out),
          data_sources |-> [p \in Providers |-> ~df_empty(prov[p])], calls |-> 1]

\* BullAnalyst.analyze: the same analyst with the other persona (the two
\* analysts differ only in the persona and framing of their prompts)
bull_analyze(trigger_ok, prov, out) == analyze("bull", trigger_ok, prov, out)

\* _get_initial_analyses: None (the empty sequence) when an analyze raised
_get_initial_analyses(res) ==
    IF \E a \in Analysts : res[a].raised THEN <<>>
    ELSE << [bull_analysis |-> res["bull"].analysis,
             bear_analysis |-> res["bear"].analysis,
             bull_data_sources |-> res["bull"].data_sources,
             bear_data_sources |-> res["bear"].data_sources] >>

\* BearAnalyst._extract_content (lines 117-127): the text the analyst takes
\* out of one provider's frame
_extract_content(r, data_type) ==
    CASE r = "empty" -> <<data_type, "no data available">>
      [] r = "blank" -> <<data_type, "content is empty">>
      [] OTHER -> <<"content of", data_type>>

\* the default of the prompt's initial_data.get(key, default) calls
ZhNoData == "zh:wushuju"
NoData == <<ZhNoData>>

\* the key under which the decision prompt looks each source up
report_key(p) ==
    CASE p = "price" -> "price_report"
      [] p = "hot_money" -> "hot_money_report"
      [] p = "news" -> "news_report"
      [] p = "financial" -> "financial_report"
      [] p = "stock_analysis" -> "stock_analysis_report"

\* dict.get(key, default)
DictGet(d, key, default) == IF key \in DOMAIN d THEN d[key] ELSE default

\* the prompt of _make_final_decision (lines 83-87 and 139-162): the five
\* report sections and the three transcripts
decision_prompt(state, data) ==
    [reports |-> [p \in Providers |-> DictGet(data, report_key(p), NoData)],
     debate_history |-> state.history,
     bull_history |-> state.bull_history,
     bear_history |-> state.bear_history]

\* ------------------------------------------------------------ AnalystManager
\* tokens of a decision text
ZhBuy == "zh:mairu"
ZhSell == "zh:maichu"
ZhHold == "zh:chiyou"
ZhHigh == "zh:gao"
ZhMid == "zh:zhong"
ZhLow == "zh:di"
ZhUnknown == "zh:weizhi"
ZhPending == "zh:daifenxi"
ZhYuan == "zh:yuan"

\* str.lower() on a token
LowerTok(tok) ==
    CASE tok = "BUY" -> "buy"
      [] tok = "Buy" -> "buy"
      [] tok = "SELL" -> "sell"
      [] tok = "Sell" -> "sell"
      [] tok = "HOLD" -> "hold"
      [] tok = "Buyback" -> "buyback"
      [] OTHER -> tok
Lower(text) == [i \in 1..Len(text) |-> LowerTok(text[i])]

\* the words a lower-case token has as substrings
Substrings(tok) ==
    CASE tok = "buyback" -> {"buyback", "buy"}
      [] tok = "household" -> {"household", "hold"}
      [] OTHER -> {tok}

\* "sub in text" for a word: str's "in" finds it inside a longer word too
In(sub, text) == \E i \in 1..Len(text) : sub \in Substrings(text[i])

\* a variant of _extract_decision that looks for a sell token first
ExtractDecisionSellFirst(analysis) ==
    LET analysis_lower == Lower(analysis) IN
    IF In(ZhSell, analysis_lower) \/ In("sell", analysis_lower) THEN ZhSell
    ELSE IF In(ZhBuy, analysis_lower) \/ In("buy", analysis_lower) THEN ZhBuy
    ELSE ZhHold

\* _extract_decision
_extract_decision(analysis) ==
    LET analysis_lower == Lower(analysis) IN
    IF In(ZhBuy, analysis_lower) \/ In("buy", analysis_lower) THEN ZhBuy
    ELSE IF In(ZhSell, analysis_lower) \/ In("sell", analysis_lower) THEN ZhSell
    ELSE IF In(ZhHold, analysis_lower) \/ In("hold", analysis_lower) THEN ZhHold
    ELSE ZhHold

\* tokens of the confidence patterns: xinxin, shuiping, the two colons, the
\* emoji and the bold mark of lines 239-244
ZhXinxin == "zh:xinxin"
ZhShuiping == "zh:shuiping"
ZhDeng == "zh:deng"
Colons == {":", "zh:colon"}
Dart == "emoji:dart"
Bold == "**"
\* what \s matches
Whitespace == {" ", NL}
WsStar == {"\\s*"}

RECURSIVE MatchAt(_, _, _)
\* re.match of a pattern at position i of text; a pattern is a sequence of
\* token classes, WsStar standing for \s*
MatchAt(text, i, pat) ==
    IF pat = <<>> THEN TRUE
    ELSE IF Head(pat) = WsStar
    THEN \/ MatchAt(text, i, Tail(pat))
         \/ i <= Len(text) /\ text[i] \in Whitespace /\ MatchAt(text, i + 1, pat)
    ELSE i <= Len(text) /\ text[i] \in Head(pat) /\ MatchAt(text, i + 1, Tail(pat))

\* re.search(pattern, text)
Search(text, pat) == \E i \in 1..(Len(text) + 1) : MatchAt(text, i, pat)

\* confidence_patterns, lines 238-245; the optional deng of patterns 3 and 4
\* never decides a match
Labelled(tier) == <<{ZhXinxin}, {ZhShuiping}, Colons, WsStar, {tier}>>
Decorated(tier) ==
    <<{Dart}, WsStar, {Bold}, {ZhXinxin}, {ZhShuiping}, {Bold}, Colons, WsStar, {tier}>>
confidence_patterns ==
    <<Labelled(ZhHigh), Decorated(ZhHigh), Labelled(ZhMid), Decorated(ZhMid),
      Labelled(ZhLow), Decorated(ZhLow)>>

\* "sub in text" for a sequence of tokens
ContainsSeq(text, sub) == Search(text, [k \in 1..Len(sub) |-> {sub[k]}])

\* lines 256-265: the bare keyword forms
KeywordConfidence(analysis) ==
    LET analysis_lower == Lower(analysis) IN
    IF \/ ContainsSeq(analysis_lower, <<ZhXinxin, ZhShuiping, ZhHigh>>)
       \/ ContainsSeq(analysis_lower, <<ZhXinxin, ZhHigh>>) THEN ZhHigh
    ELSE IF \/ ContainsSeq(analysis_lower, <<ZhXinxin, ZhShuiping, ZhMid, ZhDeng>>)
            \/ ContainsSeq(analysis_lower, <<ZhXinxin, ZhMid, ZhDeng>>)
            \/ ContainsSeq(analysis_lower, <<ZhXinxin, ZhShuiping, ZhMid>>) THEN ZhMid
    ELSE IF \/ ContainsSeq(analysis_lower, <<ZhXinxin, ZhShuiping, ZhLow>>)
            \/ ContainsSeq(analysis_lower, <<ZhXinxin, ZhLow>>) THEN ZhLow
    ELSE ZhMid

\* the start of the leftmost match of a pattern (0 without a match)
SearchStart(text, pat) ==
    LET at == {i \in 1..(Len(text) + 1) : MatchAt(text, i, pat)}
    IN IF at = {} THEN 0 ELSE CHOOSE i \in at : \A j \in at : i <= j

\* a variant of _extract_confidence in which the labelled phrase that comes
\* first in the text decides, not the first pattern of the list
ExtractConfidenceLeftmost(analysis) ==
    LET hits == {i \in 1..Len(confidence_patterns) : Search(analysis, confidence_patterns[i])}
        first == CHOOSE i \in hits : \A j \in hits :
                    \/ SearchStart(analysis, confidence_patterns[i])
                          < SearchStart(analysis, confidence_patterns[j])
                    \/ /\ SearchStart(analysis, confidence_patterns[i])
                            = SearchStart(analysis, confidence_patterns[j])
                       /\ i <= j
    IN IF hits # {}
       THEN IF first <= 2 THEN ZhHigh ELSE IF first <= 4 THEN ZhMid ELSE ZhLow
       ELSE KeywordConfidence(analysis)

\* _extract_confidence: the first pattern of the list that matches decides
_extract_confidence(analysis) ==
    LET hits == {i \in 1..Len(confidence_patterns) : Search(analysis, confidence_patterns[i])}
        first == CHOOSE i \in hits : \A j \in hits : i <= j
    IN IF hits # {}
       THEN IF first <= 2 THEN ZhHigh ELSE IF first <= 4 THEN ZhMid ELSE ZhLow
       ELSE KeywordConfidence(analysis)

\* tokens of the price patterns, lines 282-312
ZhDuanqi == "zh:duanqi"
ZhZhongqi == "zh:zhongqi"
ZhChangqi == "zh:changqi"
ZhJinqi == "zh:jinqi"
ZhMubiao == "zh:mubiao"
ZhJiage == "zh:jiage"
ZhGeyue == "zh:geyue"
ZhKuai == "zh:kuai"
\* the tokens \d+\.?\d* matches
Amounts == {"1", "3", "6", "12.5", "15", "18"}

SetMin(S) == CHOOSE x \in S : \A y \in S : x <= y

KeywordAt(text, s, kw) ==
    /\ s + Len(kw) - 1 <= Len(text)
    /\ \A k \in 1..Len(kw) : text[s + k - 1] = kw[k]

\* the token ".*?(\d+\.?\d*)" (with a following yuan when the pattern has one)
\* captures when the scan starts at i: the first amount of the line that the
\* suffix follows; "." stops at a newline. 0 when there is none.
LazyAmount(text, i, yuan) ==
    LET cand == {j \in i..Len(text) :
                    /\ text[j] \in Amounts
                    /\ yuan => (j < Len(text) /\ text[j + 1] = ZhYuan)
                    /\ \A k \in i..(j - 1) : text[k] # NL}
    IN IF cand = {} THEN 0 ELSE SetMin(cand)

\* re.search of "<kw>.*?(\d+\.?\d*)[yuan]": the index of the captured amount
\* of the leftmost match, 0 when the pattern does not match
SearchPrice(text, pat) ==
    LET starts == {s \in 1..Len(text) :
                      /\ KeywordAt(text, s, pat.kw)
                      /\ LazyAmount(text, s + Len(pat.kw), pat.yuan) # 0}
    IN IF starts = {} THEN 0
       ELSE LazyAmount(text, SetMin(starts) + Len(pat.kw), pat.yuan)

P(kw, yuan) == [kw |-> kw, yuan |-> yuan]
short_patterns ==
    <<P(<<ZhDuanqi>>, TRUE), P(<<"1", ZhGeyue>>, TRUE), P(<<ZhJinqi>>, TRUE),
      P(<<ZhDuanqi, ZhMubiao>>, FALSE), P(<<"1", ZhGeyue, ZhMubiao>>, FALSE)>>
medium_patterns ==
    <<P(<<ZhZhongqi>>, TRUE), P(<<"3", ZhGeyue>>, TRUE),
      P(<<ZhZhongqi, ZhMubiao>>, FALSE), P(<<"3", ZhGeyue, ZhMubiao>>, FALSE)>>
long_patterns ==
    <<P(<<ZhChangqi>>, TRUE), P(<<"6", ZhGeyue>>, TRUE),
      P(<<ZhChangqi, ZhMubiao>>, FALSE), P(<<"6", ZhGeyue, ZhMubiao>>, FALSE)>>

Pending == <<ZhPending>>
Price(amount) == <<amount, ZhYuan>>

SetMax(S) == CHOOSE x \in S : \A y \in S : x >= y

\* a variant of the loops of lines 315-333 without their break: the last
\* pattern of the list that matches decides
HorizonPriceNoBreak(text, patterns) ==
    LET hits == {i \in 1..Len(patterns) : SearchPrice(text, patterns[i]) # 0}
    IN IF hits = {} THEN Pending
       ELSE Price(text[SearchPrice(text, patterns[SetMax(hits)])])

\* lines 315-333: the capture of the first pattern of the list that matches
HorizonPrice(text, patterns) ==
    LET hits == {i \in 1..Len(patterns) : SearchPrice(text, patterns[i]) # 0}
    IN IF hits = {} THEN Pending
       ELSE Price(text[SearchPrice(text, patterns[SetMin(hits)])])

RECURSIVE FindAllSuffixed(_, _, _)
\* re.findall(r'(\d+\.?\d*)<suffix>', text) from position i on
FindAllSuffixed(text, i, suffix) ==
    IF i >= Len(text) THEN <<>>
    ELSE IF text[i] \in Amounts /\ text[i + 1] = suffix
    THEN <<text[i]>> \o FindAllSuffixed(text, i + 2, suffix)
    ELSE FindAllSuffixed(text, i + 1, suffix)

RECURSIVE FindAllAfter(_, _, _)
\* re.findall(r'<kw>.*?(\d+\.?\d*)', text) from position i on
FindAllAfter(text, i, kw) ==
    LET pat == P(<<kw>>, FALSE)
        starts == {s \in i..Len(text) :
                      KeywordAt(text, s, pat.kw) /\ LazyAmount(text, s + 1, FALSE) # 0}
        j == LazyAmount(text, SetMin(starts) + 1, FALSE)
    IN IF starts = {} THEN <<>>
       ELSE <<text[j]>> \o FindAllAfter(text, j + 1, kw)

\* lines 337-340: prices, in the order the four generic patterns find them
GenericPrices(text) ==
    FindAllSuffixed(text, 1, ZhYuan) \o FindAllSuffixed(text, 1, ZhKuai)
        \o FindAllAfter(text, 1, ZhJiage) \o FindAllAfter(text, 1, ZhMubiao)

Range(f) == {f[i] : i \in DOMAIN f}

\* list(set(prices)): the distinct prices in an order that the hash seed of
\* the process decides, so every order is a possible outcome
SetOrders(S) ==
    {o \in [1..Cardinality(S) -> S] : \A a, b \in 1..Cardinality(S) : o[a] = o[b] => a = b}

\* _extract_target_price: the set of dicts a call can return
_extract_target_price(analysis) ==
    LET horizon == [short_term |-> HorizonPrice(analysis, short_patterns),
                    medium_term |-> HorizonPrice(analysis, medium_patterns),
                    long_term |-> HorizonPrice(analysis, long_patterns)]
        Slot(o, n) == IF Len(o) >= n THEN Price(o[n]) ELSE Pending
    IN IF analysis = <<>> THEN {horizon}
       ELSE IF horizon.short_term = Pending /\ horizon.medium_term = Pending
               /\ horizon.long_term = Pending
       THEN {[short_term |-> Slot(o, 1), medium_term |-> Slot(o, 2),
              long_term |-> Slot(o, 3)] : o \in SetOrders(Range(GenericPrices(analysis)))}
       ELSE {horizon}

\* a variant that answers with the default tier of _extract_confidence
CreateDecisionErrorMedium(error_msg) ==
    [investment_decision |-> ZhHold,
     confidence_level |-> ZhMid,
     target_price |-> [short_term |-> <<ZhUnknown>>, medium_term |-> <<ZhUnknown>>,
                       long_term |-> <<ZhUnknown>>],
     decision_analysis |-> <<"decision analysis failed: ">> \o error_msg]

\* _create_decision_error
_create_decision_error(error_msg) ==
    [investment_decision |-> ZhHold,
     confidence_level |-> ZhLow,
     target_price |-> [short_term |-> <<ZhUnknown>>, medium_term |-> <<ZhUnknown>>,
                       long_term |-> <<ZhUnknown>>],
     decision_analysis |-> <<"decision analysis failed: ">> \o error_msg]

\* the fixed texts of analyst_manager.py lines 214 and 218
DecisionEmptyMsg == "decision analysis generation failed"
DecisionRaiseMsg == "decision generation failed: "

\* _make_final_decision, from the outcome of its a_run call on: the set of
\* decisions the call can return. It never raises: its whole body is in a try.
_make_final_decision(out) ==
    IF out.kind = "response"
    THEN IF Truthy(out.content)
         THEN {[investment_decision |-> _extract_decision(out.content),
                confidence_level |-> _extract_confidence(out.content),
                target_price |-> tp,
                decision_analysis |-> out.content] :
                  tp \in _extract_target_price(out.content)}
         ELSE {_create_decision_error(<<DecisionEmptyMsg>>)}
    ELSE {_create_decision_error(<<DecisionRaiseMsg, out.msg>>)}

\* _create_error_result of AnalystManager: the decision is the empty dict,
\* modelled as the empty sequence (a decision dict is a one-element sequence)
manager_error_result(error_msg) ==
    [analysis_completed |-> FALSE, decision_result |-> <<>>,
     total_speeches |-> 0, debate_rounds |-> 0, error |-> error_msg]

\* conduct_full_analysis, lines 58-70
final_result(total_speeches, decision) ==
    [analysis_completed |-> TRUE, decision_result |-> <<decision>>,
     total_speeches |-> total_speeches, debate_rounds |-> 2, error |-> ""]

\* the answers the backend gives to the decision prompt when it is up
DecisionTexts ==
    { <<"we", ZhBuy, "not", ZhHold, ZhXinxin, ZhShuiping, ":", " ", ZhHigh>>,
      <<"SELL", ZhDuanqi, ZhMubiao, "12.5", ZhYuan, NL, "15", ZhYuan>>,
      <<"wait", "15", ZhYuan, "18", ZhKuai>> }

\* ------------------------------------------------------------------ state
VARIABLES
    debate_state,     \* DebateRecorder.debate_state
    debate_records,   \* DebateRecorder.debate_records
    pc,               \* where the running conduct_full_analysis call is
    runs,             \* conduct_full_analysis calls started so far
    trigger_ok,       \* whether the call's trigger_time parses as a date
    todo,             \* the analyze coroutines of the gather not yet finished
    analyses,         \* the results of those that have
    initial_data,     \* conduct_debate's initial_data (<<>> is None)
    round_num,        \* conduct_debate's loop variables
    turn_num,
    debate_result,    \* what conduct_debate returned (<<>> before it returns)
    result,           \* what conduct_full_analysis returned (<<>> before)
    llm,              \* the health of the generation backend
    flips,            \* how often it has changed
    genCalls,         \* history: a_run calls issued by the running call
    provSeen,         \* history: what the providers returned to each analyst
    spoken,           \* history: the utterances generated in the running call
    recordsBefore,    \* history: Len(debate_records) when the call started
    decisionOut,      \* history: the outcome of the call's decision a_run
    turnOuts,         \* history: the outcomes of the call's turn a_runs
    genFails,         \* history: a_run calls of the call that raised or were empty
    decisionPrompt,   \* history: the prompt of the call's decision a_run (<<>> none)
    \* ---- one LLMModel.a_run call seen from inside (SpecLLM)
    lpc,              \* where the a_run call is
    max_retries,      \* a_run's max_retries after its defaults
    retry_delay,      \* a_run's retry_delay after its defaults
    attempt,          \* a_run's loop variable
    stream_attempt,   \* a_stream_run's loop variable
    full_content,     \* chunks collected by the running attempt
    backend,          \* what the backend is doing for the running attempt
    lastExc,          \* the exception of the last failed backend attempt (<<>> none)
    raisedExc,        \* the exception a_run raised to its caller (<<>> none)
    backendAttempts,  \* history: requests sent to the backend by the call
    sleeps,           \* history: the delays slept by the call, in order
    \* ---- one DataSourceBase and its cache directory (SpecCache)
    cache_files,      \* the .pkl files of data_cache_dir: file name -> frame
    cacheLog,         \* history: the save/get calls made, with their results
    \* ---- one provider instance shared by the two analysts (SpecProvider)
    provider,         \* which provider class the instance is
    prov_files,       \* the .pkl files of its data_cache_dir: file name -> frame
    runPair,          \* the (trigger_time, symbol) of the running conduct_debate
    provRuns,         \* conduct_debate runs started so far
    gpc,              \* where each analyst's get_data call is
    gcall,            \* history: what each analyst's get_data call has done
    runFetches,       \* history: upstream fetches of the running run
    runWrites,        \* history: cache files written in the running run
    namesSeen,        \* history: the file names derived, with their pairs
    \* ---- one call of an extraction function of AnalystManager (SpecExtract)
    exFn,             \* which function is called
    exText,           \* its argument
    exOut,            \* what it returned (<<>> before it returns)
    \* ---- one call of BearAnalyst.analyze, fetch by fetch (SpecAnalyze)
    apc,              \* where the analyze call is
    fetches,          \* per provider: not started, pending, or what get_data gave
    analysisPrompt,   \* the reports given to _generate_bear_analysis (<<>> none)
    bear_result,      \* what analyze returned (<<>> before it returns)
    \* ---- conduct_debate from await to await (SpecDebate)
    inflight,         \* the generation calls under way
    turnPrompts,      \* history: the prompts of the run's turns
    bothUnderWay,     \* history: the run's two analysis calls were under way together
    returnedThen,     \* history: state and records of each completed result, as returned
    \* ---- one call of get_smart_trading_date (SpecDate)
    trigger_date,     \* its argument, parsed: a day and a second of the day
    trade_date,       \* the day it returned (<<>> before it returns)
    previous_date,    \* the day get_previous_trading_date returned for it (<<>> before)
    \* --- one SinaNewsCrawl instance
    all_items,        \* self.all_items
    cpc,              \* where each get_data call on it stands
    frame,            \* per call: the items its DataFrame was built from
    \* --- the cache of processed news of that instance
    now,              \* the clock, in half days
    llm_cache_files,  \* per news batch: its file in llm_cache_dir (<<>> if none)
    newsCalls,        \* process_news_with_llm calls made so far
    newsCall,         \* history: the last of them (<<>> before the first)
    \* --- one TradingChatBot
    conversation_history, \* self.conversation_history
    chats,            \* chat calls started so far
    openChats,        \* the chat calls that are at an await
    lastChat,         \* history: how the last chat call that ended did end
    clears,           \* clear_history calls so far
    \* --- one ComprehensiveMarketAnalyzer
    cmpc,             \* where its call stands: "idle", "gathering", "generating"
    cmFn,             \* the method called: "comprehensive" or "quick"
    cmFrames,         \* what the sources of the call gave (<<>> before the gather)
    cmGenCalls,       \* generation calls issued by the call
    cmResult,         \* what the call returned (<<>> while it runs)
    cmRuns            \* calls made so far

managerVars == <<debate_state, debate_records, pc, runs, trigger_ok, todo, analyses,
                 initial_data, round_num, turn_num, debate_result, result, llm, flips,
                 genCalls, provSeen, spoken, recordsBefore, decisionOut, turnOuts,
                 genFails, decisionPrompt>>
llmVars == <<lpc, max_retries, retry_delay, attempt, stream_attempt, full_content,
             backend, lastExc, raisedExc, backendAttempts, sleeps>>
cacheVars == <<cache_files, cacheLog>>
provVars == <<provider, prov_files, runPair, provRuns, gpc, gcall, runFetches,
              runWrites, namesSeen>>
extractVars == <<exFn, exText, exOut>>
analyzeVars == <<apc, fetches, analysisPrompt, bear_result>>
recorderVars == <<inflight, turnPrompts, bothUnderWay, returnedThen>>
dateVars == <<trigger_date, trade_date, previous_date>>
crawlVars == <<all_items, cpc, frame>>
coreVars == <<managerVars, llmVars, cacheVars, provVars, extractVars, analyzeVars,
              recorderVars, dateVars>>
newsVars == <<now, llm_cache_files, newsCalls, newsCall>>
chatVars == <<conversation_history, chats, openChats, lastChat, clears>>
compVars == <<cmpc, cmFn, cmFrames, cmGenCalls, cmResult, cmRuns>>
otherVars == <<crawlVars, newsVars, chatVars, compVars>>
besidesCrawl == <<coreVars, newsVars, chatVars, compVars>>
besidesNews == <<coreVars, crawlVars, chatVars, compVars>>
besidesChat == <<coreVars, crawlVars, newsVars, compVars>>
besidesComp == <<coreVars, crawlVars, newsVars, chatVars>>
vars == <<coreVars, otherVars>>

\* an a_run outcome its callers treat as a failure
Failed(out) == out.kind = "raise" \/ ~Truthy(out.content)
Bit(b) == IF b THEN 1 ELSE 0

NoAnalysis == [raised |-> FALSE, analysis |-> <<>>, data_sources |-> NoSources, calls |-> 0]
NotCalled == [p \in Providers |-> "not called"]

\* AnalystManager.__init__ and DebateRecorder.__init__
InitManager ==
    /\ debate_state = InitDebateState
    /\ debate_records = <<>>
    /\ pc = "idle"
    /\ runs = 0
    /\ trigger_ok = TRUE
    /\ todo = {}
    /\ analyses = [a \in Analysts |-> NoAnalysis]
    /\ initial_data = <<>>
    /\ round_num = 0
    /\ turn_num = 0
    /\ debate_result = <<>>
    /\ result = <<>>
    /\ llm \in BackendModes
    /\ flips = 0
    /\ genCalls = 0
    /\ provSeen = [a \in Analysts |-> NotCalled]
    /\ spoken = <<>>
    /\ recordsBefore = 0
    /\ decisionOut = <<>>
    /\ turnOuts = <<>>
    /\ genFails = 0
    /\ decisionPrompt = <<>>

\* conduct_full_analysis is called (lines 38-46) and conduct_debate starts the
\* two analyze coroutines (lines 138-144)
StartAnalysis ==
    /\ pc = "idle"
    /\ runs < MaxRuns
    /\ \E ok \in BOOLEAN : trigger_ok' = ok
    /\ pc' = "initial"
    /\ runs' = runs + 1
    /\ todo' = Analysts
    /\ analyses' = [a \in Analysts |-> NoAnalysis]
    /\ initial_data' = <<>>
    /\ round_num' = 0
    /\ turn_num' = 0
    /\ debate_result' = <<>>
    /\ result' = <<>>
    /\ genCalls' = 0
    /\ provSeen' = [a \in Analysts |-> NotCalled]
    /\ spoken' = <<>>
    /\ recordsBefore' = Len(debate_records)
    /\ decisionOut' = <<>>
    /\ turnOuts' = <<>>
    /\ genFails' = 0
    /\ decisionPrompt' = <<>>
    /\ UNCHANGED <<debate_state, debate_records, llm, flips>>
    /\ UNCHANGED <<llmVars, cacheVars, provVars, extractVars, analyzeVars, recorderVars, dateVars,
                   otherVars>>

\* one analyst's analyze runs to its end
Analyze(a) ==
    /\ pc = "initial"
    /\ a \in todo
    /\ \E prov \in ProviderScenarios, out \in a_run(llm, SpeechContents) :
          LET r == IF a = "bull" THEN bull_analyze(trigger_ok, prov, out)
                   ELSE analyze(a, trigger_ok, prov, out)
          IN
          /\ analyses' = [analyses EXCEPT ![a] = r]
          /\ genCalls' = genCalls + r.calls
          /\ genFails' = genFails + r.calls * Bit(Failed(out))
          /\ provSeen' = [provSeen EXCEPT ![a] = IF trigger_ok THEN prov ELSE NotCalled]
    /\ todo' = todo \ {a}
    /\ UNCHANGED <<debate_state, debate_records, pc, runs, trigger_ok, initial_data,
                   round_num, turn_num, debate_result, result, llm, flips, spoken,
                   recordsBefore, decisionOut, turnOuts, decisionPrompt>>
    /\ UNCHANGED <<llmVars, cacheVars, provVars, extractVars, analyzeVars, recorderVars, dateVars,
                   otherVars>>

\* the gather of _get_initial_analyses is over (lines 142-162); without
\* initial data conduct_debate returns its error result (line 88) and
\* conduct_full_analysis its own (line 49)
InitialDone ==
    /\ pc = "initial"
    /\ todo = {}
    /\ LET data == _get_initial_analyses(analyses) IN
       /\ initial_data' = data
       /\ IF data = <<>>
          THEN /\ pc' = "idle"
               /\ debate_result' = <<[debate_completed |-> FALSE, total_speeches |-> 0]>>
               /\ result' = <<manager_error_result("debate not completed")>>
               /\ UNCHANGED <<round_num, turn_num>>
          ELSE /\ pc' = "turn"
               /\ round_num' = 1
               /\ turn_num' = 1
               /\ UNCHANGED <<debate_result, result>>
    /\ UNCHANGED <<debate_state, debate_records, runs, trigger_ok, todo, analyses,
                   llm, flips, genCalls, provSeen, spoken, recordsBefore, decisionOut,
                   turnOuts, genFails, decisionPrompt>>
    /\ UNCHANGED <<llmVars, cacheVars, provVars, extractVars, analyzeVars, recorderVars, dateVars,
                   otherVars>>

\* one turn of conduct_debate (lines 95-116): the speech is generated,
\* recorded, and the state updated; after the fourth conduct_debate returns
\* (lines 118-128) with the state and the records themselves, not copies
Speech ==
    /\ pc = "turn"
    /\ \E out \in a_run(llm, SpeechContents) :
          LET speaker == ScheduledSpeaker(turn_num)
              response == _execute_speech(speaker, out)
              st == _update_debate_state(debate_state, speaker, response)
          IN
          /\ debate_records' = _record_speech(debate_records, round_num, turn_num,
                                              speaker, response)
          /\ debate_state' = st
          /\ spoken' = Append(spoken, response)
          /\ turnOuts' = Append(turnOuts, out)
          /\ genFails' = genFails + Bit(Failed(out))
          /\ IF round_num = 2 /\ turn_num = 2
             THEN /\ pc' = "decide"
                  /\ debate_result' = <<[debate_completed |-> TRUE,
                                         total_speeches |-> st.count]>>
                  /\ UNCHANGED <<round_num, turn_num>>
             ELSE /\ round_num' = IF turn_num = 2 THEN round_num + 1 ELSE round_num
                  /\ turn_num' = IF turn_num = 2 THEN 1 ELSE 2
                  /\ UNCHANGED <<pc, debate_result>>
    /\ genCalls' = genCalls + 1
    /\ UNCHANGED <<runs, trigger_ok, todo, analyses, initial_data, result, llm, flips,
                   provSeen, recordsBefore, decisionOut, decisionPrompt>>
    /\ UNCHANGED <<llmVars, cacheVars, provVars, extractVars, analyzeVars, recorderVars, dateVars,
                   otherVars>>

\* _make_final_decision and the return of conduct_full_analysis (lines 53-73)
Decide ==
    /\ pc = "decide"
    /\ \E out \in a_run(llm, DecisionTexts) :
          /\ decisionOut' = <<out>>
          /\ decisionPrompt' = <<decision_prompt(debate_state, initial_data[1])>>
          /\ genFails' = genFails + Bit(Failed(out))
          /\ \E d \in _make_final_decision(out) :
                result' = <<final_result(debate_result[1].total_speeches, d)>>
    /\ genCalls' = genCalls + 1
    /\ pc' = "idle"
    /\ UNCHANGED <<debate_state, debate_records, runs, trigger_ok, todo, analyses,
                   initial_data, round_num, turn_num, debate_result, llm, flips,
                   provSeen, spoken, recordsBefore, turnOuts>>
    /\ UNCHANGED <<llmVars, cacheVars, provVars, extractVars, analyzeVars, recorderVars, dateVars,
                   otherVars>>

\* the environment: the backend's health changes
BackendChange ==
    /\ flips < MaxFlips
    /\ \E m \in BackendModes \ {llm} : llm' = m
    /\ flips' = flips + 1
    /\ UNCHANGED <<debate_state, debate_records, pc, runs, trigger_ok, todo, analyses,
                   initial_data, round_num, turn_num, debate_result, result, genCalls,
                   provSeen, spoken, recordsBefore, decisionOut, turnOuts, genFails,
                   decisionPrompt>>
    /\ UNCHANGED <<llmVars, cacheVars, provVars, extractVars, analyzeVars, recorderVars, dateVars,
                   otherVars>>

Next ==
    \/ StartAnalysis
    \/ \E a \in Analysts : Analyze(a)
    \/ InitialDone
    \/ Speech
    \/ Decide
    \/ BackendChange

\* ============================================================ LLMModel.a_run
\* LLMModelConfig.__init__ defaults (llm_model.py line 47)
ConfigMaxRetries == 3
ConfigRetryDelay == 20

\* the response streams the backend sends are at most this many chunks long
MaxChunks == 2

\* what a caller may pass as max_retries and retry_delay (<<>> is None)
MaxRetriesArgs == {<<>>, <<0>>, <<1>>}
RetryDelayArgs == {<<>>, <<5>>}

\* the exceptions a_stream_run retries itself (lines 362-368), the others
\* the create call of the client can raise, and those of a broken stream
StreamRunRetried == {"TimeoutError", "APITimeoutError", "APIConnectionError"}
CreateExceptions == {"APITimeoutError", "APIConnectionError", "RateLimitError"}
StreamExceptions == {"APIError"}

InitLLM ==
    /\ lpc = "idle"
    /\ max_retries = 0
    /\ retry_delay = 0
    /\ attempt = 0
    /\ stream_attempt = 0
    /\ full_content = 0
    /\ backend = "none"
    /\ lastExc = <<>>
    /\ raisedExc = <<>>
    /\ backendAttempts = 0
    /\ sleeps = <<>>

\* _internal_a_stream_run sends the request (line 426) under wait_for
\* (lines 358-361)
SendRequest ==
    /\ lpc' = "create"
    /\ backend' = "pending"
    /\ backendAttempts' = backendAttempts + 1

\* an exception reaches the handler of a_run (lines 302-310)
ARunCatches(e) ==
    /\ lastExc' = <<e>>
    /\ backend' = "none"
    /\ IF attempt < max_retries
       THEN /\ lpc' = "sleep_a_run"
            /\ UNCHANGED raisedExc
       ELSE /\ lpc' = "raised"
            /\ raisedExc' = <<e>>

\* an exception leaves the awaited create call into a_stream_run
\* (lines 362-376): the listed ones are retried there, the last one and
\* every other one go on to a_run
AStreamRunCatches(e) ==
    IF e \in StreamRunRetried /\ stream_attempt < ConfigMaxRetries
    THEN /\ lastExc' = <<e>>
         /\ backend' = "none"
         /\ lpc' = "sleep_a_stream_run"
         /\ UNCHANGED raisedExc
    ELSE ARunCatches(e)

\* a_run is called (lines 249-257) and enters a_stream_run (lines 258-264,
\* 347-356), which is not given the caller's max_retries and retry_delay
CallARun ==
    /\ lpc = "idle"
    /\ \E mr \in MaxRetriesArgs, rd \in RetryDelayArgs :
          /\ max_retries' = IF mr = <<>> THEN ConfigMaxRetries ELSE mr[1]
          /\ retry_delay' = IF rd = <<>> THEN ConfigRetryDelay ELSE rd[1]
    /\ attempt' = 0
    /\ stream_attempt' = 0
    /\ full_content' = 0
    /\ SendRequest
    /\ UNCHANGED <<lastExc, raisedExc, sleeps>>
    /\ UNCHANGED <<managerVars, cacheVars, provVars, extractVars, analyzeVars, recorderVars, dateVars,
                   otherVars>>

\* the backend answers the request: the stream is open, a_stream_run returns
\* it and a_run starts to iterate (lines 267-274)
StreamOpened ==
    /\ lpc = "create"
    /\ lpc' = "stream"
    /\ backend' = "streaming"
    /\ full_content' = 0
    /\ UNCHANGED <<max_retries, retry_delay, attempt, stream_attempt, lastExc,
                   raisedExc, backendAttempts, sleeps>>
    /\ UNCHANGED <<managerVars, cacheVars, provVars, extractVars, analyzeVars, recorderVars, dateVars,
                   otherVars>>

\* the create call raises
CreateFails ==
    /\ lpc = "create"
    /\ \E e \in CreateExceptions : AStreamRunCatches(e)
    /\ UNCHANGED <<max_retries, retry_delay, attempt, stream_attempt, full_content,
                   backendAttempts, sleeps>>
    /\ UNCHANGED <<managerVars, cacheVars, provVars, extractVars, analyzeVars, recorderVars, dateVars,
                   otherVars>>

\* the backend has not answered when the timeout of wait_for expires
\* (lines 358-361)
WaitForTimeout ==
    /\ lpc = "create"
    /\ AStreamRunCatches("TimeoutError")
    /\ UNCHANGED <<max_retries, retry_delay, attempt, stream_attempt, full_content,
                   backendAttempts, sleeps>>
    /\ UNCHANGED <<managerVars, cacheVars, provVars, extractVars, analyzeVars, recorderVars, dateVars,
                   otherVars>>

\* asyncio.sleep of a_stream_run is over (lines 372-373): its next attempt
SleepAStreamRun ==
    /\ lpc = "sleep_a_stream_run"
    /\ sleeps' = Append(sleeps, ConfigRetryDelay)
    /\ stream_attempt' = stream_attempt + 1
    /\ SendRequest
    /\ UNCHANGED <<max_retries, retry_delay, attempt, full_content, lastExc, raisedExc>>
    /\ UNCHANGED <<managerVars, cacheVars, provVars, extractVars, analyzeVars, recorderVars, dateVars,
                   otherVars>>

\* asyncio.sleep of a_run is over (lines 306-307): its next attempt calls
\* a_stream_run anew
SleepARun ==
    /\ lpc = "sleep_a_run"
    /\ sleeps' = Append(sleeps, retry_delay)
    /\ attempt' = attempt + 1
    /\ stream_attempt' = 0
    /\ full_content' = 0
    /\ SendRequest
    /\ UNCHANGED <<max_retries, retry_delay, lastExc, raisedExc>>
    /\ UNCHANGED <<managerVars, cacheVars, provVars, extractVars, analyzeVars, recorderVars, dateVars,
                   otherVars>>

\* the stream yields a chunk (lines 274-278)
StreamChunk ==
    /\ lpc = "stream"
    /\ backend = "streaming"
    /\ full_content < MaxChunks
    /\ full_content' = full_content + 1
    /\ UNCHANGED <<lpc, max_retries, retry_delay, attempt, stream_attempt, backend,
                   lastExc, raisedExc, backendAttempts, sleeps>>
    /\ UNCHANGED <<managerVars, cacheVars, provVars, extractVars, analyzeVars, recorderVars, dateVars,
                   otherVars>>

\* the stream ends and a_run returns its ModelResponse (lines 288-301)
StreamEnds ==
    /\ lpc = "stream"
    /\ backend = "streaming"
    /\ lpc' = "returned"
    /\ backend' = "none"
    /\ UNCHANGED <<max_retries, retry_delay, attempt, stream_attempt, full_content,
                   lastExc, raisedExc, backendAttempts, sleeps>>
    /\ UNCHANGED <<managerVars, cacheVars, provVars, extractVars, analyzeVars, recorderVars, dateVars,
                   otherVars>>

\* the iteration of the stream raises (line 274, inside the try of a_run)
StreamFails ==
    /\ lpc = "stream"
    /\ backend = "streaming"
    /\ \E e \in StreamExceptions : ARunCatches(e)
    /\ UNCHANGED <<max_retries, retry_delay, attempt, stream_attempt, full_content,
                   backendAttempts, sleeps>>
    /\ UNCHANGED <<managerVars, cacheVars, provVars, extractVars, analyzeVars, recorderVars, dateVars,
                   otherVars>>

\* the backend keeps the stream open and sends nothing more; the async for
\* of a_run (line 274) awaits the next chunk with no timer on it
StreamStalls ==
    /\ lpc = "stream"
    /\ backend = "streaming"
    /\ backend' = "stalled"
    /\ UNCHANGED <<lpc, max_retries, retry_delay, attempt, stream_attempt,
                   full_content, lastExc, raisedExc, backendAttempts, sleeps>>
    /\ UNCHANGED <<managerVars, cacheVars, provVars, extractVars, analyzeVars, recorderVars, dateVars,
                   otherVars>>

NextLLM ==
    \/ CallARun
    \/ StreamOpened
    \/ CreateFails
    \/ WaitForTimeout
    \/ SleepAStreamRun
    \/ SleepARun
    \/ StreamChunk
    \/ StreamEnds
    \/ StreamFails
    \/ StreamStalls

\* ============================================== DataSourceBase's cache
\* the save/get calls one behaviour makes
MaxCacheOps == 3

\* trigger_time arguments, as their characters: a trigger time, a key that
\* is already a file name, and a cache key with a symbol appended
\* (financial_statement_akshare.py line 42)
CacheKeys == {<<"d", " ", "h", ":", "m">>,
              <<"d", "_", "h", "-", "m">>,
              <<"d", " ", "h", ":", "m", "_", "s">>}

\* str.replace(" ", "_").replace(":", "-") on one character
ReplaceChar(c) == IF c = " " THEN "_" ELSE IF c = ":" THEN "-" ELSE c

\* cache_file_name (lines 19 and 30)
cache_file_name(trigger_time) ==
    [i \in 1..Len(trigger_time) |-> ReplaceChar(trigger_time[i])]

CacheFileNames == {cache_file_name(k) : k \in CacheKeys}

\* one pub_time value: a Timestamp with its sub-second part, or a str
Cell(text, ns, type) == [text |-> text, ns |-> ns, type |-> type]

\* DataFrames: the columns, and the pub_time column with its dtype
Frame(columns, dtype, pub_time) ==
    [columns |-> columns, dtype |-> dtype, pub_time |-> pub_time]
NewsColumns == {"title", "content", "pub_time", "url"}
Frames ==
    {Frame(NewsColumns, "object", <<Cell("2024-08-19 09:00:00", 0, "str")>>),
     Frame(NewsColumns, "datetime64[ns]", <<Cell("2024-08-19 09:00:00", 0, "Timestamp")>>),
     Frame(NewsColumns, "datetime64[ns]", <<Cell("2024-08-19 09:00:00", 500, "Timestamp")>>),
     Frame({"title", "content"}, "absent", <<>>)}

\* Series.dt.strftime('%Y-%m-%d %H:%M:%S') on one value (line 24)
strftime(cell) == Cell(cell.text, 0, "str")

\* get_data_cached read the file and handed it over as it is
GetDataCachedAsStored(files, trigger_time) ==
    LET cache_file == files[cache_file_name(trigger_time)] IN
    IF cache_file # <<>>
    THEN [kind |-> "frame", df |-> cache_file]
    ELSE [kind |-> "None", df |-> <<>>]

\* get_data_cached (lines 14-27): None, the frame, or the KeyError of
\* df['pub_time'] on a frame without that column
get_data_cached(files, trigger_time) ==
    LET cache_file == files[cache_file_name(trigger_time)] IN
    IF cache_file # <<>>
    THEN LET df == cache_file[1] IN
         IF "pub_time" \notin df.columns
         THEN [kind |-> "KeyError", df |-> <<>>]
         ELSE IF df.dtype = "datetime64[ns]"
              THEN [kind |-> "frame",
                    df |-> <<Frame(df.columns, "object",
                                   [i \in 1..Len(df.pub_time) |-> strftime(df.pub_time[i])])>>]
              ELSE [kind |-> "frame", df |-> <<df>>]
    ELSE [kind |-> "None", df |-> <<>>]

\* save_data_cached (lines 29-32)
save_data_cached(files, trigger_time, data) ==
    [files EXCEPT ![cache_file_name(trigger_time)] = <<data>>]

\* DataSourceBase.__init__ (lines 6-12) on an empty cache directory
InitCache ==
    /\ cache_files = [f \in CacheFileNames |-> <<>>]
    /\ cacheLog = <<>>

SaveDataCached ==
    /\ Len(cacheLog) < MaxCacheOps
    /\ \E k \in CacheKeys, p \in Frames :
          /\ cache_files' = save_data_cached(cache_files, k, p)
          /\ cacheLog' = Append(cacheLog, [op |-> "save", key |-> k,
                                           kind |-> "None", df |-> <<p>>])
    /\ UNCHANGED <<managerVars, llmVars, provVars, extractVars, analyzeVars, recorderVars, dateVars,
                   otherVars>>

GetDataCached ==
    /\ Len(cacheLog) < MaxCacheOps
    /\ \E k \in CacheKeys :
          LET r == get_data_cached(cache_files, k) IN
          cacheLog' = Append(cacheLog, [op |-> "get", key |-> k,
                                        kind |-> r.kind, df |-> r.df])
    /\ UNCHANGED cache_files
    /\ UNCHANGED <<managerVars, llmVars, provVars, extractVars, analyzeVars, recorderVars, dateVars,
                   otherVars>>

NextCache ==
    \/ SaveDataCached
    \/ GetDataCached

\* ================================================ the providers' get_data
\* conduct_debate runs one behaviour makes on the provider
MaxProvRuns == 2

\* the provider classes: two keyed by trigger time and symbol, one keyed by
\* trigger time alone, one that keeps no cache records
ProviderClasses == {"financial_statement", "stock_analysis", "price_market", "sina_news"}
KeyedBySymbol == {"financial_statement", "stock_analysis"}
Cached == KeyedBySymbol \cup {"price_market"}

\* trigger times, as their characters: one in the format strptime expects
\* (date_utils.py line 101) and one that is not
TimeOk == <<"2", "0", "2", "4", "-", "0", "8", "-", "1", "9", " ",
            "0", "9", ":", "0", "0", ":", "0", "0">>
TimeBad == <<"2", "0", "2", "4", "-", "0", "8", "-", "1", "9", "_",
             "0", "9", "-", "0", "0", "-", "0", "0">>
TriggerTimes == {TimeOk, TimeBad}
Symbols == {<<"0", "0", "0", "0", "0", "1">>, <<"0", "0", "0", "0", "0", "2">>, <<>>}
Pairs == [trigger_time : TriggerTimes, symbol : Symbols]

Digits == {"0", "1", "2", "3", "4", "5", "6", "7", "8", "9"}

\* whether datetime.strptime(trigger_time, '%Y-%m-%d %H:%M:%S') of
\* get_smart_trading_date returns (zero-padded fields) or raises
StrptimeAccepts(trigger_time) ==
    /\ Len(trigger_time) = 19
    /\ \A i \in 1..19 :
          IF i \in {5, 8} THEN trigger_time[i] = "-"
          ELSE IF i = 11 THEN trigger_time[i] = " "
          ELSE IF i \in {14, 17} THEN trigger_time[i] = ":"
          ELSE trigger_time[i] \in Digits

\* a variant that leaves the symbol out of the key
CacheKeyTimeOnly(prov, trigger_time, symbol) == trigger_time

\* cache_key: f"{trigger_time}_{symbol}" (financial_statement_akshare.py line
\* 43, stock_analysis_akshare.py line 44) or trigger_time itself
\* (price_market_akshare.py line 32)
cache_key(prov, trigger_time, symbol) ==
    IF prov \in KeyedBySymbol THEN trigger_time \o <<"_">> \o symbol ELSE trigger_time

ProvFileNames ==
    {cache_file_name(cache_key(c, pr.trigger_time, pr.symbol)) : c \in Cached, pr \in Pairs}

\* the llm_summary texts a record can hold: the generated summary, the
\* no-data text, the two failure texts
SummaryOk == "summary"
SummaryNoData == "no data available"
SummaryEmptyFallback == "analysis failed"
SummaryRaiseFallback == "analysis failed: error"

\* the one-row frame get_data builds (lines 52-60)
ProviderFrame(trigger_time, symbol, llm_summary) ==
    [columns |-> NewsColumns \cup {"symbol"}, dtype |-> "object",
     pub_time |-> <<Cell(trigger_time, 0, "str")>>,
     symbol |-> symbol, content |-> llm_summary]

\* pd.DataFrame(): no rows, no columns
EmptyFrame ==
    [columns |-> {}, dtype |-> "absent", pub_time |-> <<>>, symbol |-> <<>>,
     content |-> "empty frame"]

\* the frame the news provider returns from its crawl (lines 514-549)
NewsFrame(trigger_time) ==
    [columns |-> NewsColumns, dtype |-> "object",
     pub_time |-> <<Cell(trigger_time, 0, "str")>>, symbol |-> <<>>,
     content |-> "news"]

\* get_data_cached as get_data sees it: read_pickle can raise on a file
\* that exists
CachedLookup(files, key, read_ok) ==
    IF files[cache_file_name(key)] # <<>> /\ ~read_ok
    THEN [kind |-> "IOError", df |-> <<>>]
    ELSE get_data_cached(files, key)

\* a variant of the branch after the lookup that fetches whatever was found
AfterLookupRefetches(r, trigger_time) ==
    IF r.kind \in {"frame", "None"}
    THEN IF StrptimeAccepts(trigger_time) THEN "fetch" ELSE "empty"
    ELSE "empty"

\* get_data after the lookup (lines 44-49 and 64-66): the cached frame is
\* returned; an exception of the lookup or of get_smart_trading_date ends in
\* the handler, which returns pd.DataFrame(); else the fetch
AfterLookup(r, trigger_time) ==
    IF r.kind = "frame" THEN "hit"
    ELSE IF r.kind = "None"
    THEN IF StrptimeAccepts(trigger_time) THEN "fetch" ELSE "empty"
    ELSE "empty"

\* the outcomes of the upstream fetch and of the summarising a_run call
UpstreamOutcomes == {"data", "absent", "raise"}
SummaryOutcomes == {"content", "blank", "raise"}

\* llm_summary of get_stock_financial_analysis (lines 231-305) and its
\* likes, from the outcome of the fetch and of the a_run call
llm_summary(upstream, out) ==
    IF upstream = "absent" THEN SummaryNoData
    ELSE IF upstream = "raise" THEN SummaryRaiseFallback
    ELSE IF out = "content" THEN SummaryOk
    ELSE IF out = "blank" THEN SummaryEmptyFallback
    ELSE SummaryRaiseFallback

Callers == {"bull", "bear"}

NoCall ==
    [hadRecord |-> FALSE, found |-> <<>>, readFailed |-> FALSE, writeFailed |-> FALSE,
     fetches |-> 0, gens |-> 0, upstream |-> "none", built |-> <<>>, result |-> <<>>]

InitProvider ==
    /\ provider \in ProviderClasses
    /\ prov_files = [f \in ProvFileNames |-> <<>>]
    /\ runPair = [trigger_time |-> TimeOk, symbol |-> <<>>]
    /\ provRuns = 0
    /\ gpc = [c \in Callers |-> "idle"]
    /\ gcall = [c \in Callers |-> NoCall]
    /\ runFetches = 0
    /\ runWrites = 0
    /\ namesSeen = {}

\* pd.DataFrame(columns=[...]) of the news provider (lines 505 and 510)
EmptyNewsFrame ==
    [columns |-> NewsColumns, dtype |-> "object", pub_time |-> <<>>, symbol |-> <<>>,
     content |-> "empty frame"]

\* conduct_debate starts (debate_recorder.py lines 138-144): both analysts
\* will call get_data of the shared instance with the run's arguments
StartDebate ==
    /\ provRuns < MaxProvRuns
    /\ \A c \in Callers : gpc[c] \in {"idle", "done"}
    /\ \E pr \in Pairs : runPair' = pr
    /\ provRuns' = provRuns + 1
    /\ gpc' = [c \in Callers |-> "ready"]
    /\ gcall' = [c \in Callers |-> NoCall]
    /\ runFetches' = 0
    /\ runWrites' = 0
    /\ UNCHANGED <<provider, prov_files, namesSeen>>
    /\ UNCHANGED <<managerVars, llmVars, cacheVars, extractVars, analyzeVars, recorderVars, dateVars,
                   otherVars>>

\* the end of get_data (lines 52-66): the frame is built and saved and
\* returned; an exception of to_pickle ends in the handler
SaveAndReturn(c, call, key, llm_text, write_ok) ==
    LET df == ProviderFrame(runPair.trigger_time,
                            IF provider \in KeyedBySymbol THEN runPair.symbol ELSE <<>>,
                            llm_text)
    IN /\ gpc' = [gpc EXCEPT ![c] = "done"]
       /\ IF write_ok
          THEN /\ prov_files' = save_data_cached(prov_files, key, df)
               /\ runWrites' = runWrites + 1
               /\ gcall' = [gcall EXCEPT ![c] = [call EXCEPT !.built = <<df>>,
                                                            !.result = <<df>>]]
          ELSE /\ UNCHANGED <<prov_files, runWrites>>
               /\ gcall' = [gcall EXCEPT ![c] = [call EXCEPT !.built = <<df>>,
                                                            !.writeFailed = TRUE,
                                                            !.result = <<EmptyFrame>>]]

\* get_data returns without having fetched
ReturnNow(c, call) ==
    /\ gpc' = [gpc EXCEPT ![c] = "done"]
    /\ gcall' = [gcall EXCEPT ![c] = call]
    /\ UNCHANGED <<prov_files, runFetches, runWrites>>

\* the crawl of the news provider starts (sina_news_crawl.py lines 497-500)
NewsStart(c) ==
    /\ provider = "sina_news"
    /\ gpc' = [gpc EXCEPT ![c] = "awaiting"]
    /\ gcall' = [gcall EXCEPT ![c] = [NoCall EXCEPT !.fetches = 1]]
    /\ runFetches' = runFetches + 1
    /\ UNCHANGED <<prov_files, runWrites, namesSeen>>

\* get_data of a cached provider up to its first suspension: the lookup, the
\* trading date, the upstream fetch; without upstream data no a_run call is
\* awaited and the record is written in the same step
CachedStart(c) ==
    /\ provider \in Cached
    /\ IF provider \in KeyedBySymbol /\ runPair.symbol = <<>>
       THEN /\ ReturnNow(c, [NoCall EXCEPT !.result = <<EmptyFrame>>])
            /\ UNCHANGED namesSeen
       ELSE \E read_ok \in BOOLEAN, upstream \in UpstreamOutcomes, write_ok \in BOOLEAN :
          LET key == cache_key(provider, runPair.trigger_time, runPair.symbol)
              file == prov_files[cache_file_name(key)]
              r == CachedLookup(prov_files, key, read_ok)
              branch == AfterLookup(r, runPair.trigger_time)
              seen == [NoCall EXCEPT !.hadRecord = (file # <<>>), !.found = file,
                                     !.readFailed = (r.kind = "IOError")]
          IN /\ namesSeen' = namesSeen \cup
                                {[pair |-> runPair, name |-> cache_file_name(key)]}
             /\ CASE branch = "hit" ->
                       ReturnNow(c, [seen EXCEPT !.result = r.df])
                  [] branch = "empty" ->
                       ReturnNow(c, [seen EXCEPT !.result = <<EmptyFrame>>])
                  [] OTHER ->
                       /\ runFetches' = runFetches + 1
                       /\ LET call == [seen EXCEPT !.fetches = 1, !.upstream = upstream] IN
                          IF upstream = "data"
                          THEN /\ gpc' = [gpc EXCEPT ![c] = "awaiting"]
                               /\ gcall' = [gcall EXCEPT ![c] = call]
                               /\ UNCHANGED <<prov_files, runWrites>>
                          ELSE SaveAndReturn(c, call, key, llm_summary(upstream, "none"),
                                             write_ok)

\* an analyst's get_data call starts and runs to its first suspension
GetDataStart(c) ==
    /\ gpc[c] = "ready"
    /\ NewsStart(c) \/ CachedStart(c)
    /\ UNCHANGED <<provider, runPair, provRuns>>
    /\ UNCHANGED <<managerVars, llmVars, cacheVars, extractVars, analyzeVars, recorderVars, dateVars,
                   otherVars>>

\* the awaited call is over and get_data runs to its end: the crawl of the
\* news provider (lines 500-549), the a_run call of the others
GetDataResume(c) ==
    /\ gpc[c] = "awaiting"
    /\ IF provider = "sina_news"
       THEN \E upstream \in {"data", "absent"} :
               /\ gpc' = [gpc EXCEPT ![c] = "done"]
               /\ gcall' = [gcall EXCEPT ![c] =
                     [@ EXCEPT !.upstream = upstream,
                               !.gens = IF upstream = "data" THEN 1 ELSE 0,
                               !.result = IF upstream = "data"
                                          THEN <<NewsFrame(runPair.trigger_time)>>
                                          ELSE <<EmptyNewsFrame>>]]
               /\ UNCHANGED <<prov_files, runWrites>>
       ELSE \E out \in SummaryOutcomes, write_ok \in BOOLEAN :
               SaveAndReturn(c, [gcall[c] EXCEPT !.gens = 1],
                             cache_key(provider, runPair.trigger_time, runPair.symbol),
                             llm_summary("data", out), write_ok)
    /\ UNCHANGED <<provider, runPair, provRuns, runFetches, namesSeen>>
    /\ UNCHANGED <<managerVars, llmVars, cacheVars, extractVars, analyzeVars, recorderVars, dateVars,
                   otherVars>>

NextProvider ==
    \/ StartDebate
    \/ \E c \in Callers : GetDataStart(c)
    \/ \E c \in Callers : GetDataResume(c)

\* ------------------------------------- the extraction functions, on texts
\* the longest text given to an extraction function, in phrases
MaxPhrases == 3

\* what a decision text is made of: the tokens _extract_decision looks for,
\* in both scripts and several cases, inside a longer word, and a filler
DecisionPhrases ==
    { <<ZhBuy>>, <<"BUY">>, <<"Buyback">>, <<ZhSell>>, <<"Sell">>, <<ZhHold>>,
      <<"HOLD">>, <<"wait">> }

\* what a confidence text is made of: labelled and decorated phrases with
\* either colon and with or without blanks, bare keyword forms, fillers
ConfidencePhrases ==
    { <<ZhXinxin, ZhShuiping, ":", " ", ZhHigh>>,
      <<ZhXinxin, ZhShuiping, "zh:colon", ZhMid, ZhDeng>>,
      <<ZhXinxin, ZhShuiping, ":", NL, ZhLow>>,
      <<Dart, " ", Bold, ZhXinxin, ZhShuiping, Bold, ":", " ", ZhHigh>>,
      <<Dart, Bold, ZhXinxin, ZhShuiping, Bold, "zh:colon", ZhLow>>,
      <<ZhXinxin, ZhHigh>>,
      <<ZhXinxin, ZhShuiping, ZhMid>>,
      <<ZhXinxin, ZhLow>>,
      <<ZhHigh>>,
      <<"ok">> }

\* what a price text is made of: horizon phrases with and without the yuan
\* suffix, generic amounts, a price keyword, a line break
PricePhrases ==
    { <<ZhDuanqi, ZhMubiao, "12.5", ZhYuan>>,
      <<ZhDuanqi, ZhMubiao, "6">>,
      <<ZhJinqi, "3">>,
      <<ZhZhongqi, "15", ZhYuan>>,
      <<"6", ZhGeyue, ZhMubiao, "18">>,
      <<"12.5", ZhYuan>>,
      <<"15", ZhYuan>>,
      <<"18", ZhYuan>>,
      <<"15", ZhKuai>>,
      <<ZhJiage, "3">>,
      <<NL>> }

RECURSIVE Flatten(_)
Flatten(parts) == IF parts = <<>> THEN <<>> ELSE Head(parts) \o Flatten(Tail(parts))

\* the texts of at most MaxPhrases phrases
Texts(phrases) ==
    {Flatten(parts) : parts \in UNION {[1..n -> phrases] : n \in 0..MaxPhrases}}

ExtractFunctions == {"_extract_decision", "_extract_confidence", "_extract_target_price"}

TextsOf(fn) ==
    CASE fn = "_extract_decision" -> Texts(DecisionPhrases)
      [] fn = "_extract_confidence" -> Texts(ConfidencePhrases)
      [] fn = "_extract_target_price" -> Texts(PricePhrases)

\* no call of an extraction function under way
NoExtract ==
    /\ exFn = "none"
    /\ exText = <<>>
    /\ exOut = <<>>

\* a call of one of the extraction functions on a text
InitExtract ==
    /\ exFn \in ExtractFunctions
    /\ exText \in TextsOf(exFn)
    /\ exOut = <<>>

ExtractDecision ==
    /\ exFn = "_extract_decision"
    /\ exOut = <<>>
    /\ exOut' = <<_extract_decision(exText)>>
    /\ UNCHANGED <<exFn, exText>>
    /\ UNCHANGED <<managerVars, llmVars, cacheVars, provVars, analyzeVars, recorderVars,
                   dateVars,
                   otherVars>>

ExtractConfidence ==
    /\ exFn = "_extract_confidence"
    /\ exOut = <<>>
    /\ exOut' = <<_extract_confidence(exText)>>
    /\ UNCHANGED <<exFn, exText>>
    /\ UNCHANGED <<managerVars, llmVars, cacheVars, provVars, analyzeVars, recorderVars,
                   dateVars,
                   otherVars>>

ExtractTargetPrice ==
    /\ exFn = "_extract_target_price"
    /\ exOut = <<>>
    /\ \E tp \in _extract_target_price(exText) : exOut' = <<tp>>
    /\ UNCHANGED <<exFn, exText>>
    /\ UNCHANGED <<managerVars, llmVars, cacheVars, provVars, analyzeVars, recorderVars,
                   dateVars,
                   otherVars>>

NextExtract ==
    \/ ExtractDecision
    \/ ExtractConfidence
    \/ ExtractTargetPrice

\* ------------------------------------------------- get_smart_trading_date
\* the days a trigger time is drawn from: day d is d days after a Sunday
MaxDays == 21
Days == 1..MaxDays
\* datetime.weekday(): Monday is 0, Sunday is 6
weekday(day) == (day - 1) % 7
\* 15:30:00 as a second of the day (line 106)
Cutoff == 15 * 3600 + 30 * 60
\* the times of day tried: midnight, around the cutoff, the last second
Seconds == {0, Cutoff - 1, Cutoff, Cutoff + 1, 24 * 3600 - 1}
TriggerDates == [day : Days, second : Seconds]

\* a variant of get_previous_trading_date without the step back from Sunday
PreviousTradingDateSaturdayOnly(trigger_datetime) ==
    LET previous_datetime == trigger_datetime.day - 1 IN
    IF weekday(previous_datetime) = 5 THEN previous_datetime - 1
    ELSE previous_datetime

\* get_previous_trading_date (lines 63-74): the day it formats
get_previous_trading_date(trigger_datetime) ==
    LET previous_datetime == trigger_datetime.day - 1 IN
    IF weekday(previous_datetime) = 6 THEN previous_datetime - 2
    ELSE IF weekday(previous_datetime) = 5 THEN previous_datetime - 1
    ELSE previous_datetime

\* get_smart_trading_date (lines 99-121): the day it formats; strftime with
\* the default format drops the time of day
get_smart_trading_date(current_datetime) ==
    IF current_datetime.second >= Cutoff
    THEN current_datetime.day
    ELSE LET target_date == current_datetime.day - 1 IN
         IF weekday(target_date) = 6 THEN target_date - 2
         ELSE IF weekday(target_date) = 5 THEN target_date - 1
         ELSE target_date

NoDateCall ==
    /\ trigger_date = <<>>
    /\ trade_date = <<>>
    /\ previous_date = <<>>

\* a call of get_smart_trading_date with a well-formed trigger time
InitDateCall ==
    /\ trigger_date \in {<<t>> : t \in TriggerDates}
    /\ trade_date = <<>>
    /\ previous_date = <<>>

GetSmartTradingDate ==
    /\ trigger_date # <<>>
    /\ trade_date = <<>>
    /\ trade_date' = <<get_smart_trading_date(trigger_date[1])>>
    /\ UNCHANGED <<trigger_date, previous_date>>
    /\ UNCHANGED <<managerVars, llmVars, cacheVars, provVars, extractVars, analyzeVars,
                   recorderVars,
                   otherVars>>

GetPreviousTradingDate ==
    /\ trigger_date # <<>>
    /\ previous_date = <<>>
    /\ previous_date' = <<get_previous_trading_date(trigger_date[1])>>
    /\ UNCHANGED <<trigger_date, trade_date>>
    /\ UNCHANGED <<managerVars, llmVars, cacheVars, provVars, extractVars, analyzeVars,
                   recorderVars,
                   otherVars>>

NextDate ==
    \/ GetSmartTradingDate
    \/ GetPreviousTradingDate

\* -------------------------------------- BearAnalyst.analyze, fetch by fetch
\* what a get_data call can settle with
FetchResults == {"content", "blank", "empty", "raise"}

\* a variant of the gather of lines 63-65 that goes on at the first result
SettledFirst(f) == \E p \in Providers : f[p] \in FetchResults

\* asyncio.gather (lines 63-65): every awaitable has a result
Settled(f) == \A p \in Providers : f[p] \in FetchResults

\* lines 68-72: the text taken out of each provider's frame
Reports(f) == [p \in Providers |-> _extract_content(f[p], p)]

\* an outcome that plays no part (analyze makes no generation call)
NoOutcome == [kind |-> "raise", msg |-> ""]

\* a call of analyze with a well-formed trigger time
InitAnalyzeCall ==
    /\ apc = "idle"
    /\ fetches = [p \in Providers |-> "not started"]
    /\ analysisPrompt = <<>>
    /\ bear_result = <<>>

\* lines 48-65: the five get_data coroutines are made and handed to gather,
\* which schedules all of them; analyze waits
AnalyzeCall ==
    /\ apc = "idle"
    /\ apc' = "gathering"
    /\ fetches' = [p \in Providers |-> "pending"]
    /\ UNCHANGED <<analysisPrompt, bear_result>>
    /\ UNCHANGED <<managerVars, llmVars, cacheVars, provVars, extractVars, recorderVars,
                   dateVars,
                   otherVars>>

\* one get_data call settles. gather hands the first exception to analyze at
\* once, whose handler answers (lines 100-115); the other calls go on and
\* their results are dropped
FetchSettles(p) ==
    /\ fetches[p] = "pending"
    /\ \E r \in FetchResults :
          /\ fetches' = [fetches EXCEPT ![p] = r]
          /\ IF r = "raise" /\ apc = "gathering"
             THEN /\ apc' = "returned"
                  /\ bear_result' = <<analyze("bear", TRUE, fetches', NoOutcome)>>
             ELSE UNCHANGED <<apc, bear_result>>
    /\ UNCHANGED analysisPrompt
    /\ UNCHANGED <<managerVars, llmVars, cacheVars, provVars, extractVars, recorderVars,
                   dateVars,
                   otherVars>>

\* lines 63-77: gather returns the five frames, the reports are extracted and
\* _generate_bear_analysis makes its generation call
GenerateCall ==
    /\ apc = "gathering"
    /\ Settled(fetches)
    /\ apc' = "generating"
    /\ analysisPrompt' = <<Reports(fetches)>>
    /\ UNCHANGED <<fetches, bear_result>>
    /\ UNCHANGED <<managerVars, llmVars, cacheVars, provVars, extractVars, recorderVars,
                   dateVars,
                   otherVars>>

\* the generation call is over and analyze returns (lines 79-98)
GenerateReturns ==
    /\ apc = "generating"
    /\ \E m \in BackendModes : \E out \in a_run(m, SpeechContents) :
          bear_result' = <<analyze("bear", TRUE, fetches, out)>>
    /\ apc' = "returned"
    /\ UNCHANGED <<fetches, analysisPrompt>>
    /\ UNCHANGED <<managerVars, llmVars, cacheVars, provVars, extractVars, recorderVars,
                   dateVars,
                   otherVars>>

NextAnalyze ==
    \/ AnalyzeCall
    \/ \E p \in Providers : FetchSettles(p)
    \/ GenerateCall
    \/ GenerateReturns


\* ------------------------------ DebateRecorder.conduct_debate, await by await
\* conduct_debate calls made on one DebateRecorder in a behaviour
MaxDebates == 2
\* the backend of a generation call of the debate: it answers or it fails
DebateBackends == {"up", "down"}
\* what the providers give an analyst of the debate
DebateScenarios == {AllContent, NewsRaises}

AnalysisCalls == {c \in inflight : c.kind = "analysis"}
TurnCalls == {c \in inflight : c.kind = "turn"}

\* what the debate leaves alone: the manager's own bookkeeping
managerOwn == <<result, llm, flips, genCalls, decisionOut, turnOuts, genFails,
                decisionPrompt>>

\* conduct_debate is called (lines 78-86); _get_initial_analyses makes the two
\* analyze coroutines and hands them to gather (lines 138-144)
ConductDebate ==
    /\ pc = "idle"
    /\ runs < MaxDebates
    /\ inflight = {}
    /\ \E ok \in BOOLEAN : trigger_ok' = ok
    /\ pc' = "initial"
    /\ runs' = runs + 1
    /\ todo' = Analysts
    /\ analyses' = [a \in Analysts |-> NoAnalysis]
    /\ provSeen' = [a \in Analysts |-> NotCalled]
    /\ initial_data' = <<>>
    /\ round_num' = 0
    /\ turn_num' = 0
    /\ debate_result' = <<>>
    /\ spoken' = <<>>
    /\ recordsBefore' = Len(debate_records)
    /\ turnPrompts' = <<>>
    /\ bothUnderWay' = FALSE
    /\ UNCHANGED <<debate_state, debate_records, inflight, returnedThen, managerOwn>>
    /\ UNCHANGED <<llmVars, cacheVars, provVars, extractVars, analyzeVars, dateVars,
                   otherVars>>

\* an analyze coroutine runs up to its generation call, or to its end when
\* the trigger time is malformed or a provider raises
AnalysisCall(a) ==
    /\ pc = "initial"
    /\ a \in todo
    /\ \A c \in AnalysisCalls : c.who # a
    /\ \E prov \in DebateScenarios :
          LET early == IF a = "bull" THEN bull_analyze(trigger_ok, prov, NoOutcome)
                       ELSE analyze(a, trigger_ok, prov, NoOutcome)
              ends == ~trigger_ok \/ \E p \in Providers : prov[p] = "raise"
          IN IF ends
             THEN /\ analyses' = [analyses EXCEPT ![a] = early]
                  /\ todo' = todo \ {a}
                  /\ UNCHANGED <<inflight, provSeen, bothUnderWay>>
             ELSE /\ inflight' = inflight \cup {[kind |-> "analysis", who |-> a]}
                  /\ provSeen' = [provSeen EXCEPT ![a] = prov]
                  /\ bothUnderWay' = (bothUnderWay \/ AnalysisCalls # {})
                  /\ UNCHANGED <<analyses, todo>>
    /\ UNCHANGED <<debate_state, debate_records, pc, runs, trigger_ok, initial_data,
                   round_num, turn_num, debate_result, spoken, recordsBefore,
                   turnPrompts, returnedThen, managerOwn>>
    /\ UNCHANGED <<llmVars, cacheVars, provVars, extractVars, analyzeVars, dateVars,
                   otherVars>>

\* the generation call of an analyze coroutine is over and analyze returns
AnalysisReturns(a) ==
    /\ pc = "initial"
    /\ [kind |-> "analysis", who |-> a] \in inflight
    /\ \E m \in DebateBackends : \E out \in a_run(m, SpeechContents) :
          analyses' = [analyses EXCEPT ![a] =
                          IF a = "bull" THEN bull_analyze(TRUE, provSeen[a], out)
                          ELSE analyze(a, TRUE, provSeen[a], out)]
    /\ inflight' = inflight \ {[kind |-> "analysis", who |-> a]}
    /\ todo' = todo \ {a}
    /\ UNCHANGED <<debate_state, debate_records, pc, runs, trigger_ok, initial_data,
                   round_num, turn_num, debate_result, spoken, recordsBefore,
                   turnPrompts, provSeen, bothUnderWay, returnedThen, managerOwn>>
    /\ UNCHANGED <<llmVars, cacheVars, provVars, extractVars, analyzeVars, dateVars,
                   otherVars>>

\* gather is over (lines 142-162): conduct_debate goes on to its first turn,
\* or returns its error result without initial data (lines 87-88, 346-357)
Gathered ==
    /\ pc = "initial"
    /\ todo = {}
    /\ LET data == _get_initial_analyses(analyses) IN
       /\ initial_data' = data
       /\ IF data = <<>>
          THEN /\ pc' = "idle"
               /\ debate_result' = <<[debate_completed |-> FALSE, total_speeches |-> 0]>>
               /\ UNCHANGED <<round_num, turn_num>>
          ELSE /\ pc' = "turn"
               /\ round_num' = 1
               /\ turn_num' = 1
               /\ UNCHANGED debate_result
    /\ UNCHANGED <<debate_state, debate_records, runs, trigger_ok, todo, analyses,
                   provSeen, spoken, recordsBefore, inflight, turnPrompts, bothUnderWay,
                   returnedThen, managerOwn>>
    /\ UNCHANGED <<llmVars, cacheVars, provVars, extractVars, analyzeVars, dateVars,
                   otherVars>>

\* a turn starts (lines 95-110): _execute_speech calls the speaker's
\* _generate_*_speech, which builds its prompt from the state as it is and
\* awaits the generation call (lines 188-238, 253-304)
TurnCall ==
    /\ pc = "turn"
    /\ LET speaker == ScheduledSpeaker(turn_num) IN
       /\ turnPrompts' = Append(turnPrompts,
                                speech_prompt(speaker, debate_state, initial_data[1]))
       /\ inflight' = inflight \cup {[kind |-> "turn", who |-> speaker]}
    /\ pc' = "speaking"
    /\ UNCHANGED <<debate_state, debate_records, runs, trigger_ok, todo, analyses,
                   provSeen, initial_data, round_num, turn_num, debate_result, spoken,
                   recordsBefore, bothUnderWay, returnedThen, managerOwn>>
    /\ UNCHANGED <<llmVars, cacheVars, provVars, extractVars, analyzeVars, dateVars,
                   otherVars>>

\* the generation call of the turn is over: the speech is recorded and the
\* state updated, without an await in between (lines 112-116); after the
\* fourth turn conduct_debate returns (lines 118-128)
TurnReturns ==
    /\ pc = "speaking"
    /\ \E m \in DebateBackends : \E out \in a_run(m, SpeechContents) :
          LET speaker == ScheduledSpeaker(turn_num)
              response == _execute_speech(speaker, out)
              st == _update_debate_state(debate_state, speaker, response)
          IN
          /\ debate_records' = _record_speech(debate_records, round_num, turn_num,
                                              speaker, response)
          /\ debate_state' = st
          /\ spoken' = Append(spoken, response)
          /\ inflight' = inflight \ {[kind |-> "turn", who |-> speaker]}
          /\ IF round_num = 2 /\ turn_num = 2
             THEN /\ pc' = "idle"
                  /\ debate_result' = <<[debate_completed |-> TRUE,
                                         total_speeches |-> st.count]>>
                  /\ returnedThen' = Append(returnedThen,
                                            [debate_state |-> st,
                                             debate_records |-> debate_records'])
                  /\ UNCHANGED <<round_num, turn_num>>
             ELSE /\ pc' = "turn"
                  /\ round_num' = IF turn_num = 2 THEN round_num + 1 ELSE round_num
                  /\ turn_num' = IF turn_num = 2 THEN 1 ELSE 2
                  /\ UNCHANGED <<debate_result, returnedThen>>
    /\ UNCHANGED <<runs, trigger_ok, todo, analyses, provSeen, initial_data,
                   recordsBefore, turnPrompts, bothUnderWay, managerOwn>>
    /\ UNCHANGED <<llmVars, cacheVars, provVars, extractVars, analyzeVars, dateVars,
                   otherVars>>

NextDebate ==
    \/ ConductDebate
    \/ \E a \in Analysts : AnalysisCall(a)
    \/ \E a \in Analysts : AnalysisReturns(a)
    \/ Gathered
    \/ TurnCall
    \/ TurnReturns

\* no analyze call and no debate at await granularity under way
NoAnalyzeCall ==
    /\ apc = "none"
    /\ fetches = [p \in Providers |-> "not started"]
    /\ analysisPrompt = <<>>
    /\ bear_result = <<>>

NoRecorderCall ==
    /\ inflight = {}
    /\ turnPrompts = <<>>
    /\ bothUnderWay = FALSE
    /\ returnedThen = <<>>

\* ------------------------------------ SinaNewsCrawl.get_data, await by await
\* get_data calls made on the one instance in a behaviour
MaxCrawls == 2
\* end_page of the instance (start_page is 1)
MaxPages == 2
Crawls == 1..MaxCrawls
Pages == 1..MaxPages

RECURSIVE PageResults(_, _, _)
\* what the loop of lines 485-489 adds to self.all_items: the items of the
\* pages of one gather, in page order; a page whose fetch failed gives []
PageResults(c, got, page) ==
    IF page > MaxPages THEN <<>>
    ELSE (IF page \in got THEN <<[page |-> page, by |-> c]>> ELSE <<>>)
            \o PageResults(c, got, page + 1)

\* SinaNewsCrawl.__init__ (line 37), no get_data call yet
NoCrawl ==
    /\ all_items = <<>>
    /\ cpc = [c \in Crawls |-> "idle"]
    /\ frame = [c \in Crawls |-> <<>>]

\* get_data is called: it empties self.all_items (line 494) and runs
\* crawl_all_pages up to its gather (lines 476-483)
GetData(c) ==
    /\ cpc[c] = "idle"
    /\ all_items' = <<>>
    /\ cpc' = [cpc EXCEPT ![c] = "gathering"]
    /\ UNCHANGED frame
    /\ UNCHANGED besidesCrawl

\* the gather of a call is over: its pages are added to self.all_items
\* (lines 485-489); leaving the session block may or may not give way to
\* other coroutines before crawl_all_pages returns self.all_items (line 490)
\* and get_data builds its DataFrame from it (lines 497-510)
PagesGathered(c) ==
    /\ cpc[c] = "gathering"
    /\ \E got \in SUBSET Pages :
          all_items' = all_items \o PageResults(c, got, 1)
    /\ \E gives_way \in BOOLEAN :
          IF gives_way
          THEN /\ cpc' = [cpc EXCEPT ![c] = "closing"]
               /\ UNCHANGED frame
          ELSE /\ cpc' = [cpc EXCEPT ![c] = "done"]
               /\ frame' = [frame EXCEPT ![c] = all_items']
    /\ UNCHANGED besidesCrawl

\* the session is closed: crawl_all_pages returns self.all_items as it is now
SessionClosed(c) ==
    /\ cpc[c] = "closing"
    /\ frame' = [frame EXCEPT ![c] = all_items]
    /\ cpc' = [cpc EXCEPT ![c] = "done"]
    /\ UNCHANGED all_items
    /\ UNCHANGED besidesCrawl

NextCrawl ==
    \/ \E c \in Crawls : GetData(c)
    \/ \E c \in Crawls : PagesGathered(c)
    \/ \E c \in Crawls : SessionClosed(c)

\* ------------------------------------- SinaNewsCrawl.process_news_with_llm
\* process_news_with_llm calls in a behaviour
MaxNewsCalls == 2
\* how far the clock runs, in half days
MaxHalfDays == 3
HalfDay == 12 * 3600
\* line 319
CacheExpiry == 24 * 3600
\* the batches of news a call can be given (one cache key each)
Batches == {"morning news", "evening news"}
\* the steps of a call that can fail: making the key, reading the file,
\* removing it, writing it (nothing written, or a truncated file left)
NewsFaults == {"key", "read", "unlink", "save", "save truncated"}
Truncated == [of |-> "nothing", rows |-> "truncated pickle", made |-> 0]

\* (datetime.now() - cache_time).total_seconds() (lines 318-319)
Age(file) == (now - file.mtime) * HalfDay

\* a variant of _load_llm_cache that takes the file whatever its age
LoadLLMCacheAnyAge(file, faults) ==
    IF file = <<>> THEN [cached |-> <<>>, file |-> file]
    ELSE IF "read" \in faults \/ file[1].content = Truncated
         THEN [cached |-> <<>>, file |-> file]
         ELSE [cached |-> <<file[1].content>>, file |-> file]

\* _load_llm_cache (lines 311-325): what it returns (<<>> for None) and the
\* file it leaves
_load_llm_cache(file, faults) ==
    IF file = <<>> THEN [cached |-> <<>>, file |-> file]
    ELSE IF Age(file[1]) < CacheExpiry
         THEN IF "read" \in faults \/ file[1].content = Truncated
              THEN [cached |-> <<>>, file |-> file]
              ELSE [cached |-> <<file[1].content>>, file |-> file]
         ELSE IF "unlink" \in faults
              THEN [cached |-> <<>>, file |-> file]
              ELSE [cached |-> <<>>, file |-> <<>>]

\* _save_llm_cache (lines 301-309): the file it leaves
_save_llm_cache(file, processed_df, faults) ==
    IF "save" \in faults THEN file
    ELSE IF "save truncated" \in faults THEN <<[mtime |-> now, content |-> Truncated]>>
    ELSE <<[mtime |-> now, content |-> processed_df]>>

\* process_news_with_llm (lines 327-372) on a batch (or on an empty frame):
\* what it returns and the file it leaves. rows: "input" is the frame it was
\* given, "processed" what the model made of it, "raw" the records of the
\* batches the model did not answer for (lines 435-443). made: the call that
\* produced the rows
process_news_with_llm(df, file, faults, llm_ok, n) ==
    LET input == [of |-> df, rows |-> "input", made |-> n]
        loaded == _load_llm_cache(file, faults)
        processed_df == [of |-> df, rows |-> IF llm_ok THEN "processed" ELSE "raw",
                         made |-> n]
    IN IF df = "empty" \/ "key" \in faults
       THEN [raised |-> FALSE, result |-> input, file |-> file, batches |-> 0]
       ELSE IF loaded.cached # <<>>
       THEN [raised |-> FALSE, result |-> loaded.cached[1], file |-> loaded.file,
             batches |-> 0]
       ELSE [raised |-> FALSE, result |-> processed_df,
             file |-> _save_llm_cache(loaded.file, processed_df, faults),
             batches |-> 1]

\* SinaNewsCrawl.__init__ (lines 41-42): the cache directory, no call yet
NoNewsCall ==
    /\ now = 0
    /\ llm_cache_files = [b \in Batches |-> <<>>]
    /\ newsCalls = 0
    /\ newsCall = <<>>

\* one call of process_news_with_llm
ProcessNewsWithLLM ==
    /\ newsCalls < MaxNewsCalls
    /\ \E df \in Batches \cup {"empty"}, faults \in SUBSET NewsFaults, llm_ok \in BOOLEAN :
          LET before == IF df = "empty" THEN <<>> ELSE llm_cache_files[df]
              out == process_news_with_llm(df, before, faults, llm_ok, newsCalls + 1)
          IN /\ llm_cache_files' = IF df = "empty" THEN llm_cache_files
                                   ELSE [llm_cache_files EXCEPT ![df] = out.file]
             /\ newsCall' = <<[df |-> df, faults |-> faults, before |-> before,
                               at |-> now, n |-> newsCalls + 1, out |-> out]>>
    /\ newsCalls' = newsCalls + 1
    /\ UNCHANGED now
    /\ UNCHANGED besidesNews

\* half a day goes by
HalfDayPasses ==
    /\ now < MaxHalfDays
    /\ now' = now + 1
    /\ UNCHANGED <<llm_cache_files, newsCalls, newsCall>>
    /\ UNCHANGED besidesNews

NextNews ==
    \/ ProcessNewsWithLLM
    \/ HalfDayPasses

\* ------------------------------------------- TradingChatBot, await by await
\* chat calls made on one TradingChatBot in a behaviour
MaxChats == 7
\* who calls chat: each caller awaits its call before it makes the next
\* (the console loop of main does, line 615)
ChatCallers == {"console", "another task"}
\* clear_history calls in a behaviour
MaxClears == 1

\* a variant that sends the whole history
HistorySliceAll(history) == history

\* self.conversation_history[-10:] (line 139)
HistorySlice(history) ==
    IF Len(history) <= 10 THEN history
    ELSE SubSeq(history, Len(history) - 9, Len(history))

\* the two appends of lines 115-116 and 160-161
SaveTurn(history, user_input, assistant_reply) ==
    history \o <<[role |-> "user", content |-> user_input],
                 [role |-> "assistant", content |-> assistant_reply]>>

\* TradingChatBot.__init__ (line 24), nothing said yet
NoChat ==
    /\ conversation_history = <<>>
    /\ chats = 0
    /\ openChats = {}
    /\ lastChat = <<>>
    /\ clears = 0

\* chat is called (lines 28-84, 119-149). An input with one of the keywords
\* waits for its market data first; any other input goes to the model at
\* once, with the last messages of the history
ChatCall ==
    /\ chats < MaxChats
    /\ chats' = chats + 1
    /\ \E who \in ChatCallers, keyword \in BOOLEAN :
          /\ \A c \in openChats : c.who # who
          /\ openChats' = openChats \cup
                {IF keyword
                 THEN [who |-> who, n |-> chats + 1, at |-> "data", market |-> TRUE,
                       sent |-> <<>>]
                 ELSE [who |-> who, n |-> chats + 1, at |-> "a_run", market |-> FALSE,
                       sent |-> HistorySlice(conversation_history)]}
    /\ UNCHANGED <<conversation_history, lastChat, clears>>
    /\ UNCHANGED besidesChat

\* the data of a market question is there (lines 49-103), or there is none
\* and the question is treated as any other (lines 119-149), or the step
\* raised and the handler of lines 171-174 returns
DataFetched(c) ==
    /\ c \in openChats
    /\ c.at = "data"
    /\ \E market_data \in {"data", "none", "raise"} :
          CASE market_data = "data" ->
                  /\ openChats' = (openChats \ {c}) \cup {[c EXCEPT !.at = "a_run"]}
                  /\ UNCHANGED lastChat
            [] market_data = "none" ->
                  /\ openChats' = (openChats \ {c}) \cup
                        {[c EXCEPT !.at = "a_run", !.market = FALSE,
                                   !.sent = HistorySlice(conversation_history)]}
                  /\ UNCHANGED lastChat
            [] market_data = "raise" ->
                  /\ openChats' = openChats \ {c}
                  /\ lastChat' = <<[n |-> c.n, outcome |-> "raise"]>>
    /\ UNCHANGED <<conversation_history, chats, clears>>
    /\ UNCHANGED besidesChat

\* a_run is over (lines 105-117, 151-174): content, no content, or it raised
ChatReturns(c) ==
    /\ c \in openChats
    /\ c.at = "a_run"
    /\ \E outcome \in {"content", "nothing", "raise"} :
          /\ conversation_history' =
                IF outcome = "content"
                THEN SaveTurn(conversation_history, <<"input", c.n>>, <<"reply", c.n>>)
                ELSE conversation_history
          /\ lastChat' = <<[n |-> c.n, outcome |-> outcome]>>
    /\ openChats' = openChats \ {c}
    /\ UNCHANGED <<chats, clears>>
    /\ UNCHANGED besidesChat

\* clear_history (lines 495-498)
ClearHistory ==
    /\ clears < MaxClears
    /\ clears' = clears + 1
    /\ conversation_history' = <<>>
    /\ UNCHANGED <<chats, openChats, lastChat>>
    /\ UNCHANGED besidesChat

NextChat ==
    \/ ChatCall
    \/ \E c \in openChats : DataFetched(c)
    \/ \E c \in openChats : ChatReturns(c)
    \/ ClearHistory

\* ---------------------------- ComprehensiveMarketAnalyzer, await by await
\* calls made on one ComprehensiveMarketAnalyzer in a behaviour
MaxAnalyses == 2
\* the sources of get_comprehensive_analysis (lines 46-49), in the order of
\* its flags, and those of get_quick_market_summary (lines 312-313)
ComprehensiveSources == <<"price_market", "hot_money", "news", "macro_econo">>
QuickSources == <<"price_market", "hot_money">>
SourcesOf(fn) == IF fn = "quick" THEN QuickSources ELSE ComprehensiveSources
\* what a get_data call gives: None, a frame without rows, a frame with
\* rows, or an exception
SourceResults == {"none", "empty", "content", "raise"}

\* not df.empty if df is not None else False (lines 78-81, 319-320)
available(df) == df = "content"

\* a variant that counts the flags whatever their value
SumOfAll(flags) == Len(flags)

RECURSIVE sum(_)
\* sum([...]) of a list of bools (line 112)
sum(flags) ==
    IF flags = <<>> THEN 0
    ELSE (IF Head(flags) THEN 1 ELSE 0) + sum(Tail(flags))

AllFalse == [i \in 1..Len(ComprehensiveSources) |-> FALSE]

\* the dict of lines 84-92: no source has data
no_data_result ==
    [fn |-> "comprehensive", raised |-> FALSE, report |-> "no data",
     flags |-> AllFalse, data_sources_count |-> 0]

\* the dicts of lines 63-71 and 118-126: a step raised
failed_result ==
    [fn |-> "comprehensive", raised |-> FALSE, report |-> "failed",
     flags |-> AllFalse, data_sources_count |-> 0]

\* the dict of lines 105-114
analysis_result(frames, comprehensive_analysis) ==
    LET flags == [i \in 1..Len(frames) |-> available(frames[i])] IN
    [fn |-> "comprehensive", raised |-> FALSE, report |-> comprehensive_analysis,
     flags |-> flags, data_sources_count |-> sum(flags)]

\* what get_quick_market_summary returns: a string
quick_result(report) == [fn |-> "quick", raised |-> FALSE, report |-> report]

\* ComprehensiveMarketAnalyzer.__init__, no call yet
NoComprehensive ==
    /\ cmpc = "idle"
    /\ cmFn = "none"
    /\ cmFrames = <<>>
    /\ cmGenCalls = 0
    /\ cmResult = <<>>
    /\ cmRuns = 0

\* one of the two methods is called (lines 36-52, 302-316). A trigger time
\* that does not parse raises at line 42 (308): the handler of
\* get_comprehensive_analysis reads trade_date, which is not bound (line 64);
\* that of get_quick_market_summary returns its message (line 346)
ComprehensiveCall ==
    /\ cmpc = "idle"
    /\ cmRuns < MaxAnalyses
    /\ cmRuns' = cmRuns + 1
    /\ cmGenCalls' = 0
    /\ cmFrames' = <<>>
    /\ \E fn \in {"comprehensive", "quick"}, trigger_parses \in BOOLEAN :
          /\ cmFn' = fn
          /\ IF trigger_parses
             THEN /\ cmpc' = "gathering"
                  /\ cmResult' = <<>>
             ELSE /\ cmpc' = "idle"
                  /\ cmResult' = IF fn = "quick" THEN <<quick_result("failed")>>
                                 ELSE <<[fn |-> fn, raised |-> TRUE]>>
    /\ UNCHANGED besidesComp

\* the gather is over (lines 52, 316): a source that raised ends the call in
\* the handler; without any data the call returns at once (lines 83-92,
\* 322-323); building the text may raise (lines 95-98, 326-328); otherwise
\* the generation call is issued (lines 101-103, 331-333)
SourcesGathered ==
    /\ cmpc = "gathering"
    /\ \E frames \in [1..Len(SourcesOf(cmFn)) -> SourceResults], text_ok \in BOOLEAN :
          /\ cmFrames' = frames
          /\ IF \E i \in DOMAIN frames : frames[i] = "raise"
             THEN /\ cmResult' = IF cmFn = "quick" THEN <<quick_result("failed")>>
                                 ELSE <<failed_result>>
                  /\ cmpc' = "idle"
                  /\ UNCHANGED cmGenCalls
             ELSE IF \A i \in DOMAIN frames : ~available(frames[i])
             THEN /\ cmResult' = IF cmFn = "quick" THEN <<quick_result("no data")>>
                                 ELSE <<no_data_result>>
                  /\ cmpc' = "idle"
                  /\ UNCHANGED cmGenCalls
             ELSE IF ~text_ok
             THEN /\ cmResult' = IF cmFn = "quick" THEN <<quick_result("failed")>>
                                 ELSE <<failed_result>>
                  /\ cmpc' = "idle"
                  /\ UNCHANGED cmGenCalls
             ELSE /\ cmpc' = "generating"
                  /\ cmGenCalls' = cmGenCalls + 1
                  /\ UNCHANGED cmResult
    /\ UNCHANGED <<cmFn, cmRuns>>
    /\ UNCHANGED besidesComp

\* the generation call is over: _get_llm_comprehensive_analysis and
\* _get_llm_quick_summary turn no content and an exception into a message
\* (lines 293-300), and the call returns (lines 105-114, 336-342)
ComprehensiveGenerated ==
    /\ cmpc = "generating"
    /\ \E outcome \in {"content", "nothing", "raise"} :
          LET text == IF outcome = "content" THEN "analysis" ELSE "no analysis" IN
          cmResult' = IF cmFn = "quick" THEN <<quick_result(text)>>
                      ELSE <<analysis_result(cmFrames, text)>>
    /\ cmpc' = "idle"
    /\ UNCHANGED <<cmFn, cmFrames, cmGenCalls, cmRuns>>
    /\ UNCHANGED besidesComp

NextComprehensive ==
    \/ ComprehensiveCall
    \/ SourcesGathered
    \/ ComprehensiveGenerated

\* the machines that are not running in a specification
NoOtherCalls == NoCrawl /\ NoNewsCall /\ NoChat /\ NoComprehensive

Init ==
    /\ InitManager /\ InitLLM /\ InitCache
    /\ InitProvider /\ provider = "financial_statement"
    /\ NoExtract /\ NoAnalyzeCall /\ NoRecorderCall /\ NoDateCall
    /\ NoOtherCalls

\* the parts on their own start with a healthy generation backend
InitPart == Init /\ llm = "up"

Spec == Init /\ [][Next]_vars

SpecLLM == InitPart /\ [][NextLLM]_vars

\* the event loop runs every coroutine that can go on and fires every timer
\* that is due; the backend is free to answer or not
FairSpecLLM ==
    /\ InitPart
    /\ [][NextLLM]_vars
    /\ WF_vars(CallARun)
    /\ WF_vars(StreamOpened \/ CreateFails \/ WaitForTimeout)
    /\ WF_vars(SleepAStreamRun)
    /\ WF_vars(SleepARun)
    /\ WF_vars(StreamChunk \/ StreamEnds \/ StreamFails \/ StreamStalls)

SpecCache == InitPart /\ [][NextCache]_vars

\* the providers on their own: any of the provider classes
InitProviders ==
    /\ InitManager /\ llm = "up" /\ InitLLM /\ InitCache /\ InitProvider /\ NoExtract
    /\ NoAnalyzeCall /\ NoRecorderCall /\ NoDateCall
    /\ NoOtherCalls

SpecProvider == InitProviders /\ [][NextProvider]_vars

\* the extraction functions on their own: any function on any of its texts
InitExtraction ==
    /\ InitManager /\ llm = "up" /\ InitLLM /\ InitCache
    /\ InitProvider /\ provider = "financial_statement"
    /\ InitExtract
    /\ NoAnalyzeCall /\ NoRecorderCall /\ NoDateCall
    /\ NoOtherCalls

SpecExtract == InitExtraction /\ [][NextExtract]_vars

\* get_smart_trading_date on its own: any day, any of the times
InitDate ==
    /\ InitManager /\ llm = "up" /\ InitLLM /\ InitCache
    /\ InitProvider /\ provider = "financial_statement"
    /\ NoExtract /\ NoAnalyzeCall /\ NoRecorderCall
    /\ InitDateCall
    /\ NoOtherCalls

SpecDate == InitDate /\ [][NextDate]_vars

\* one analyze call of the bear analyst on its own
InitAnalyze ==
    /\ InitManager /\ llm = "up" /\ InitLLM /\ InitCache
    /\ InitProvider /\ provider = "financial_statement"
    /\ NoExtract /\ NoRecorderCall /\ NoDateCall
    /\ InitAnalyzeCall
    /\ NoOtherCalls

SpecAnalyze == InitAnalyze /\ [][NextAnalyze]_vars

\* a DebateRecorder on its own, from await to await
InitDebate == Init /\ llm = "up"

\* one SinaNewsCrawl instance on its own
InitCrawl == Init /\ llm = "up"

SpecCrawl == InitCrawl /\ [][NextCrawl]_vars

\* one ComprehensiveMarketAnalyzer on its own
InitComprehensive == Init /\ llm = "up"

SpecComprehensive == InitComprehensive /\ [][NextComprehensive]_vars

\* one TradingChatBot on its own
InitChat == Init /\ llm = "up"

SpecChat == InitChat /\ [][NextChat]_vars

\* the cache of processed news on its own
InitNews == Init /\ llm = "up"

SpecNews == InitNews /\ [][NextNews]_vars

SpecDebate == InitDebate /\ [][NextDebate]_vars

\* ================================================================== claims
DebateCompleted == debate_result # <<>> /\ debate_result[1].debate_completed
Returned == pc = "idle" /\ result # <<>>
Labels == {ZhBuy, ZhSell, ZhHold}
Tiers == {ZhHigh, ZhMid, ZhLow}

\* C1: every conduct_debate call that returns debate_completed = True returns
\* a debate_state with count = 4, round = 2 and a history that is the four
\* utterances of that run joined by newlines, in turn order; also for a second
\* or later run on the same DebateRecorder.
C1_CompletedStateIsOneRun ==
    DebateCompleted =>
        /\ debate_state.count = 4
        /\ debate_state.round = 2
        /\ Len(spoken) = 4
        /\ debate_state.history = JoinLines(spoken)

\* C2: the debate_records a completed conduct_debate returns hold exactly four
\* entries, spoken by bear, bull, bear, bull at (round, turn) = (1,1), (1,2),
\* (2,1), (2,2).
C2_FourRecordsInSchedule ==
    DebateCompleted =>
        /\ Len(debate_records) = 4
        /\ [i \in 1..4 |-> debate_records[i].speaker] = <<"bear", "bull", "bear", "bull">>
        /\ [i \in 1..4 |-> <<debate_records[i].round, debate_records[i].turn>>]
               = << <<1, 1>>, <<1, 2>>, <<2, 1>>, <<2, 2>> >>

\* C3: when every provider returns an empty result to both analysts,
\* conduct_full_analysis issues no generation call and returns
\* analysis_completed = False with a no-data indication.
C3_NoDataNoGeneration ==
    (Returned /\ \A a \in Analysts : provSeen[a] = AllEmpty) =>
        /\ genCalls = 0
        /\ ~result[1].analysis_completed
        /\ result[1].error # ""

\* C4: whatever the generation calls do, a conduct_debate run that obtained
\* its initial analyses returns completed with exactly 4 turns recorded in the
\* run; every recorded utterance starts with its speaker's tag; a generation
\* that raised or came back empty yields the persona's fallback text.
C4_FourTaggedTurns ==
    /\ \A i \in 1..Len(debate_records) :
          Head(debate_records[i].response) = SpeakerTag(debate_records[i].speaker)
    /\ (debate_result # <<>> /\ initial_data # <<>>) =>
          /\ debate_result[1].debate_completed
          /\ Len(debate_records) = recordsBefore + 4
          /\ Len(turnOuts) = 4
    /\ \A i \in 1..Len(turnOuts) :
          LET rec == debate_records[recordsBefore + i] IN
          /\ turnOuts[i].kind = "raise" =>
                rec.response = <<SpeakerTag(rec.speaker), SpeechRaiseFallback, turnOuts[i].msg>>
          /\ (turnOuts[i].kind = "response" /\ ~Truthy(turnOuts[i].content)) =>
                rec.response = <<SpeakerTag(rec.speaker), SpeechEmptyFallback>>

\* a debate has returned whose four generation calls all raised
C4_Witness ==
    /\ DebateCompleted
    /\ Len(turnOuts) = 4
    /\ \A i \in 1..4 : turnOuts[i].kind = "raise"

\* C5: when the decision's generation call raises or returns no content,
\* _make_final_decision returns (it does not raise) the decision Hold, Low,
\* three unknown price targets, and a narrative holding the failure reason.
C5_DecisionFallback ==
    (Returned /\ decisionOut # <<>> /\ Failed(decisionOut[1])) =>
        /\ result[1].decision_result # <<>>
        /\ LET d == result[1].decision_result[1] IN
           /\ d.investment_decision = ZhHold
           /\ d.confidence_level = ZhLow
           /\ d.target_price.short_term = <<ZhUnknown>>
           /\ d.target_price.medium_term = <<ZhUnknown>>
           /\ d.target_price.long_term = <<ZhUnknown>>
           /\ IF decisionOut[1].kind = "raise"
              THEN /\ Contains(d.decision_analysis, DecisionRaiseMsg)
                   /\ Contains(d.decision_analysis, decisionOut[1].msg)
              ELSE Contains(d.decision_analysis, DecisionEmptyMsg)

\* an analysis has returned all of whose generation calls raised
C5_Witness ==
    /\ Returned
    /\ decisionOut # <<>> /\ decisionOut[1].kind = "raise"
    /\ genCalls = 7 /\ genFails = 7

\* C8: a conduct_full_analysis call in which all five providers return
\* content and every generation call succeeds returns analysis_completed =
\* True, total_speeches = 4, debate_rounds = 2 and a decision that is Buy,
\* Sell or Hold.
C8_HappyPath ==
    (Returned /\ genFails = 0 /\ \A a \in Analysts : provSeen[a] = AllContent) =>
        /\ result[1].analysis_completed
        /\ result[1].total_speeches = 4
        /\ result[1].debate_rounds = 2
        /\ result[1].decision_result # <<>>
        /\ result[1].decision_result[1].investment_decision \in Labels

\* C9: conduct_full_analysis always returns a result whose decision has a
\* label among Buy, Sell, Hold, a confidence tier among High, Medium, Low and
\* the three price-target slots filled.
C9_DecisionAlwaysComplete ==
    Returned =>
        /\ result[1].decision_result # <<>>
        /\ LET d == result[1].decision_result[1] IN
           /\ d.investment_decision \in Labels
           /\ d.confidence_level \in Tiers
           /\ d.target_price.short_term # <<>>
           /\ d.target_price.medium_term # <<>>
           /\ d.target_price.long_term # <<>>

\* C6 (as stated): one a_run call sends at most max_retries + 1 requests to
\* the generation backend.
C6_AtMostMaxRetriesPlusOneAttempts ==
    lpc # "idle" => backendAttempts <= max_retries + 1

\* C7 (as stated): every a_run call eventually returns a response or raises,
\* whatever the backend does, because each attempt is ended by the timeout.
C7_EveryCallEnds == <>(lpc \in {"returned", "raised"})

\* record set p as get_data_cached hands it over: a datetime64[ns] pub_time
\* column as its second-precision texts
PubTimeAsText(p) ==
    IF p.dtype = "datetime64[ns]"
    THEN Frame(p.columns, "object",
               [i \in 1..Len(p.pub_time) |-> Cell(p.pub_time[i].text, 0, "str")])
    ELSE p

SaveThenGet(i) ==
    /\ cacheLog[i].op = "save"
    /\ cacheLog[i + 1].op = "get"
    /\ cacheLog[i + 1].key = cacheLog[i].key

GetThenGet(i) ==
    /\ cacheLog[i].op = "get"
    /\ cacheLog[i + 1].op = "get"
    /\ cacheLog[i + 1].key = cacheLog[i].key

SameResult(i) ==
    /\ cacheLog[i + 1].kind = cacheLog[i].kind
    /\ cacheLog[i + 1].df = cacheLog[i].df

GetDataDone(c) == gpc[c] = "done"

\* the arguments with which a get_data call reaches its fetch when it finds
\* no record: a trigger time strptime accepts and, where the provider takes
\* one, a symbol that is not empty; the news provider takes any
FetchableArgs ==
    \/ provider = "sina_news"
    \/ /\ StrptimeAccepts(runPair.trigger_time)
       /\ provider \in KeyedBySymbol => runPair.symbol # <<>>

C12_OneFetchOneWritePerRun == runFetches <= 1 /\ runWrites <= 1

C14_CacheErrorIsAMiss ==
    \A c \in Callers : GetDataDone(c) =>
        /\ gcall[c].readFailed =>
              /\ gcall[c].fetches = 1
              /\ gcall[c].built # <<>>
              /\ gcall[c].result = gcall[c].built
        /\ gcall[c].writeFailed => gcall[c].result = gcall[c].built

\* C15 (as stated): a cache record is created only by a successful fetch:
\* every record holds a generated summary, never the no-data text or a
\* failure text.
C15_RecordsOnlyFromSuccessfulFetch ==
    \A f \in ProvFileNames :
        prov_files[f] # <<>> => prov_files[f][1].content = SummaryOk

\* ---- the extraction functions
Extracted(fn) == exFn = fn /\ exOut # <<>>
BuyTokens == {ZhBuy, "buy", "Buy", "BUY", "buyback", "Buyback"}
SellTokens == {ZhSell, "sell", "Sell", "SELL"}
HasToken(text, tokens) == \E i \in 1..Len(text) : text[i] \in tokens

\* C16: _extract_decision answers Buy whenever the text has a buy token, in
\* either script and any case, whatever sell or hold tokens it also has and
\* wherever they stand; without a buy token it answers Sell if the text has a
\* sell token; otherwise Hold, also for a text without any token
C16_BuyThenSellThenHold ==
    Extracted("_extract_decision") =>
        exOut[1] = IF HasToken(exText, BuyTokens) THEN ZhBuy
                   ELSE IF HasToken(exText, SellTokens) THEN ZhSell
                   ELSE ZhHold

\* a text with a sell token before its buy token was answered with Buy
C16_Witness ==
    /\ Extracted("_extract_decision")
    /\ \E i, j \in 1..Len(exText) :
          i < j /\ exText[i] \in SellTokens /\ exText[j] \in BuyTokens
    /\ HasToken(exText, {ZhHold, "HOLD"})
    /\ exOut = <<ZhBuy>>

LabelledIn(text, tier) == Search(text, Labelled(tier)) \/ Search(text, Decorated(tier))

\* C17: _extract_confidence answers with the tier of the first labelled
\* pattern of its list that matches, high before medium before low whatever
\* their places in the text; the bare keyword forms decide only when no
\* labelled pattern matches; the answer is Medium when nothing matches, and
\* always one of the three tiers
C17_FirstPatternOfTheListDecides ==
    Extracted("_extract_confidence") =>
        /\ exOut[1] \in Tiers
        /\ exOut[1] = IF LabelledIn(exText, ZhHigh) THEN ZhHigh
                      ELSE IF LabelledIn(exText, ZhMid) THEN ZhMid
                      ELSE IF LabelledIn(exText, ZhLow) THEN ZhLow
                      ELSE KeywordConfidence(exText)
        /\ ~Contains(exText, ZhXinxin) => exOut[1] = ZhMid

\* a text whose low label stands before its high label was answered with High
C17_Witness ==
    /\ Extracted("_extract_confidence")
    /\ SearchStart(exText, Labelled(ZhLow)) # 0
    /\ SearchStart(exText, Labelled(ZhLow)) < SearchStart(exText, Labelled(ZhHigh))
    /\ exOut = <<ZhHigh>>

HorizonLists ==
    [short_term |-> short_patterns, medium_term |-> medium_patterns,
     long_term |-> long_patterns]
Matches(text, pat) == SearchPrice(text, pat) # 0
ListMatches(text, patterns) == \E i \in 1..Len(patterns) : Matches(text, patterns[i])
AnyHorizonMatches(text) == \E h \in DOMAIN HorizonLists : ListMatches(text, HorizonLists[h])

\* C18: when a horizon list matches, each slot is, independently of the
\* others, the amount the first matching pattern of its own list captures,
\* with the yuan suffix, and a slot whose list matches nothing stays pending:
\* the generic amounts are not looked at. A short-term target of 12.5 yuan
\* gives short_term = 12.5 yuan.
C18_FirstMatchingPatternPerHorizon ==
    Extracted("_extract_target_price") =>
        /\ AnyHorizonMatches(exText) =>
              \A h \in DOMAIN HorizonLists :
                 LET patterns == HorizonLists[h] IN
                 IF ListMatches(exText, patterns)
                 THEN \E i \in 1..Len(patterns) :
                         /\ Matches(exText, patterns[i])
                         /\ \A j \in 1..(i - 1) : ~Matches(exText, patterns[j])
                         /\ exOut[1][h] = <<exText[SearchPrice(exText, patterns[i])], ZhYuan>>
                 ELSE exOut[1][h] = Pending
        /\ exText = <<ZhDuanqi, ZhMubiao, "12.5", ZhYuan>> =>
              exOut[1].short_term = <<"12.5", ZhYuan>>

\* a text in which the first and the fourth short-term pattern capture
\* different amounts, and which has a generic amount but no medium-term
\* phrase: the first pattern's amount, and a pending medium-term slot
C18_Witness ==
    /\ Extracted("_extract_target_price")
    /\ Matches(exText, short_patterns[1]) /\ Matches(exText, short_patterns[4])
    /\ exText[SearchPrice(exText, short_patterns[4])] = "6"
    /\ exOut[1].short_term = <<"12.5", ZhYuan>>
    /\ ~ListMatches(exText, medium_patterns)
    /\ exOut[1].medium_term = Pending
    /\ GenericPrices(exText) # <<>>

\* C19: a text without horizon phrasing and with at most three generic
\* amounts "X yuan" gets exactly those amounts by their place in the text:
\* the first in short_term, the second in medium_term, the third in
\* long_term, the slots left over pending
C19_GenericAmountsByPosition ==
    LET amounts == FindAllSuffixed(exText, 1, ZhYuan) IN
    ( /\ Extracted("_extract_target_price")
      /\ ~AnyHorizonMatches(exText)
      /\ ~HasToken(exText, {ZhKuai, ZhJiage, ZhMubiao})
      /\ Len(amounts) <= 3 ) =>
        /\ exOut[1].short_term = IF Len(amounts) >= 1 THEN <<amounts[1], ZhYuan>> ELSE Pending
        /\ exOut[1].medium_term = IF Len(amounts) >= 2 THEN <<amounts[2], ZhYuan>> ELSE Pending
        /\ exOut[1].long_term = IF Len(amounts) >= 3 THEN <<amounts[3], ZhYuan>> ELSE Pending

\* ---- the decision prompt
ReportsSeen(a) == \A p \in Providers : provSeen[a][p] \in {"content", "empty", "blank"}

\* C20: for every completed debate _make_final_decision makes exactly one
\* generation call, whose prompt has, for each of the five sources, the text
\* the analysts' aggregation step extracted for it, and the combined, the
\* bull-only and the bear-only transcript of the run
C20_PromptCarriesReportsAndTranscripts ==
    (Returned /\ DebateCompleted) =>
        /\ decisionPrompt # <<>>
        /\ genCalls - Len(turnOuts)
              - analyses["bull"].calls - analyses["bear"].calls = 1
        /\ \A p \in Providers :
              \A a \in Analysts :
                 ReportsSeen(a) =>
                    \E b \in Analysts :
                       /\ ReportsSeen(b)
                       /\ decisionPrompt[1].reports[p] = _extract_content(provSeen[b][p], p)
        /\ decisionPrompt[1].debate_history = JoinLines(spoken)
        /\ decisionPrompt[1].bear_history = JoinLines(<<spoken[1], spoken[3]>>)
        /\ decisionPrompt[1].bull_history = JoinLines(<<spoken[2], spoken[4]>>)

\* ---- the trading date
DateReturned == trigger_date # <<>> /\ trade_date # <<>>

\* C30: for every trigger time, on any day of the week and before or after
\* the 15:30 cutoff, get_smart_trading_date returns a Monday-to-Friday date:
\* the trigger's own day from 15:30:00 on, and otherwise the day before, moved
\* back to Friday when that day falls on a weekend
C30_AlwaysATradingDay ==
    DateReturned =>
        LET t == trigger_date[1]
            d == trade_date[1]
        IN /\ weekday(d) \in 0..4
           /\ t.second >= Cutoff => d = t.day
           /\ t.second < Cutoff =>
                 d = IF weekday(t.day - 1) \in {5, 6}
                     THEN CHOOSE f \in (t.day - 3)..(t.day - 1) : weekday(f) = 4
                     ELSE t.day - 1

\* ---- BearAnalyst.analyze
AnalyzeReturned == apc = "returned" /\ bear_result # <<>>
Generated == AnalyzeReturned /\ analysisPrompt # <<>>

\* C21: in the result of BearAnalyst.analyze a source's availability flag is
\* True exactly when real content was extracted for it: a provider result
\* without rows and one with rows but empty content both give False
C21_FlagMeansContent ==
    Generated =>
        \A p \in Providers :
           bear_result[1].data_sources[p] <=> fetches[p] = "content"

\* C24: the five provider fetches are started together and the analyst's
\* generation call starts only after all five have settled; a provider that
\* settles with an empty result neither stops the step (only an exception of
\* a provider ends analyze without a generation call) nor keeps the results
\* of the others from being used
C24_GatherIsABarrier ==
    /\ apc = "idle" => \A p \in Providers : fetches[p] = "not started"
    /\ apc # "idle" => \A p \in Providers : fetches[p] # "not started"
    /\ analysisPrompt # <<>> =>
          /\ \A p \in Providers : fetches[p] \in FetchResults
          /\ \A p \in Providers :
                fetches[p] = "content" => analysisPrompt[1][p] = <<"content of", p>>
    /\ (AnalyzeReturned /\ analysisPrompt = <<>>) =>
          \E p \in Providers : fetches[p] = "raise"
    /\ Generated =>
          /\ bear_result[1].calls = 1
          /\ \A p \in Providers :
                fetches[p] = "content" => bear_result[1].data_sources[p]

\* a provider settled empty, the other four with content: the generation
\* call was made with the four contents
C24_Witness ==
    /\ Generated
    /\ fetches["news"] = "empty"
    /\ \A p \in Providers \ {"news"} :
          fetches[p] = "content" /\ analysisPrompt[1][p] = <<"content of", p>>
    /\ bear_result[1].calls = 1

\* ---- conduct_debate, await by await
\* text ends with suffix
EndsWith(text, suffix) ==
    /\ Len(suffix) <= Len(text)
    /\ SubSeq(text, Len(text) - Len(suffix) + 1, Len(text)) = suffix
\* the record of the speech before the n-th prompt of the run (0: none yet)
RecordBefore(n) == recordsBefore + n - 1

\* C22: within a conduct_debate run no two turn generation calls are under
\* way at the same time, and the prompt of turn n+1 is built after turn n was
\* recorded: its debate history has the full text of turns 1..n of the run
\* and its latest-opposing-view section is the text of turn n
C22_TurnsAreSequential ==
    /\ Cardinality(TurnCalls) <= 1
    /\ Len(turnPrompts) <= Len(spoken) + 1
    /\ \A n \in 1..Len(turnPrompts) :
          /\ Len(debate_records) >= RecordBefore(n)
          /\ n > 1 =>
                /\ EndsWith(turnPrompts[n].history, JoinLines(SubSeq(spoken, 1, n - 1)))
                /\ turnPrompts[n].opposing = spoken[n - 1]

\* the third turn's call is under way: its prompt has the first two speeches
\* of the run and answers the second
C22_Witness ==
    /\ pc = "speaking"
    /\ Len(turnPrompts) = 3
    /\ Len(spoken) = 2
    /\ runs = 2
    /\ TurnCalls = {[kind |-> "turn", who |-> "bear"]}
    /\ turnPrompts[3].opposing = spoken[2]

\* C23: the bull and the bear initial analyses run concurrently, the
\* generation call of round 1 turn 1 starts only after both are over, and the
\* base analyses are made once per run: every bear turn argues from the same
\* bear text and every bull turn from the same bull text
C23_AnalysesBeforeTurnsAndReused ==
    /\ (TurnCalls # {} \/ turnPrompts # <<>>) =>
          /\ todo = {}
          /\ AnalysisCalls = {}
    /\ \A a \in Analysts : analyses[a].calls <= 1
    /\ \A n \in 1..Len(turnPrompts) :
          /\ turnPrompts[n].speaker = "bear" =>
                turnPrompts[n].base = analyses["bear"].analysis
          /\ turnPrompts[n].speaker = "bull" =>
                turnPrompts[n].base = analyses["bull"].analysis

\* both analyses were under way at the same time, and the four turns of the
\* run argued from their two texts
C23_Witness ==
    /\ pc = "idle"
    /\ bothUnderWay
    /\ Len(turnPrompts) = 4
    /\ analyses["bear"].calls = 1 /\ analyses["bull"].calls = 1
    /\ analyses["bear"].analysis # analyses["bull"].analysis
    /\ turnPrompts[1].base = turnPrompts[3].base
    /\ turnPrompts[2].base = turnPrompts[4].base
    /\ turnPrompts[1].base # turnPrompts[2].base

\* C25: in every reachable state of a DebateRecorder round = count div 2;
\* each _update_debate_state raises count by exactly 1 and round by 1 exactly
\* when the new count is even; count and round never decrease
C25_RoundIsHalfTheCount ==
    /\ [](debate_state.round = debate_state.count \div 2)
    /\ [][ /\ debate_state'.count \in {debate_state.count, debate_state.count + 1}
           /\ debate_state'.round >= debate_state.round
           /\ debate_state'.count = debate_state.count + 1 =>
                 debate_state'.round =
                    debate_state.round + Bit(debate_state'.count % 2 = 0)
           /\ Len(debate_records') > Len(debate_records) =>
                 debate_state'.count = debate_state.count + 1 ]_vars

\* the fifth speech of a recorder is recorded: round 2
C25_Witness == debate_state.count = 5 /\ debate_state.round = 2

\* C26: after every recorded speech debate_state.turn is the persona other
\* than the one who spoke, and before every turn conduct_debate executes it
\* is the speaker the schedule chooses for that turn (bear at first)
C26_TurnAlternatesWithSchedule ==
    /\ debate_records = <<>> => debate_state.turn = "bear"
    /\ debate_records # <<>> =>
          debate_state.turn # debate_records[Len(debate_records)].speaker
    /\ pc = "turn" => debate_state.turn = ScheduledSpeaker(turn_num)
    /\ pc = "speaking" => debate_state.turn = turnPrompts[Len(turnPrompts)].speaker

\* the second run's third turn is about to start: it is the bear's
C26_Witness ==
    /\ runs = 2 /\ pc = "turn" /\ round_num = 2 /\ turn_num = 1
    /\ debate_state.turn = "bear"
    /\ debate_records[Len(debate_records)].speaker = "bull"

\* C27: at every await of conduct_debate and in every result it returns the
\* number of records is debate_state.count, and when count > 0 the last
\* record's response is debate_state.current_response and the last speech of
\* the history
C27_RecordsAndStateAgree ==
    /\ Len(debate_records) = debate_state.count
    /\ debate_state.count > 0 =>
          /\ debate_records[Len(debate_records)].response = debate_state.current_response
          /\ EndsWith(debate_state.history, debate_state.current_response)
          /\ debate_state.count > 1 =>
                EndsWith(debate_state.history, <<NL>> \o debate_state.current_response)

\* a run ended in its error result after an earlier run had recorded four
\* speeches, the last of them a fallback
C27_Witness ==
    /\ pc = "idle" /\ runs = 2
    /\ debate_result # <<>> /\ ~debate_result[1].debate_completed
    /\ debate_state.count = 4
    /\ debate_state.current_response = <<"Bull Analyst: ", SpeechRaiseFallback, "Request timed out.">>

\* C28: in each turn the latest-opposing-view section of the prompt is
\* debate_state.current_response exactly when that speech was made by the
\* other persona, and the placeholder otherwise; the first turn of every run
\* gets the placeholder
C28_RebuttalTargetIsTheOtherPersonas ==
    \A n \in 1..Len(turnPrompts) :
       LET prev == RecordBefore(n) IN
       /\ turnPrompts[n].opposing =
             IF prev > 0 /\ debate_records[prev].speaker # turnPrompts[n].speaker
             THEN debate_records[prev].response
             ELSE NoRebuttal
       /\ n = 1 => turnPrompts[n].opposing = NoRebuttal

\* C29: debate_records is append-only: every operation leaves each entry as
\* it is and where it is, and adds entries only at the end, one per turn
C29_RecordsAppendOnly ==
    [][ /\ Len(debate_records') \in {Len(debate_records), Len(debate_records) + 1}
        /\ SubSeq(debate_records', 1, Len(debate_records)) = debate_records
        /\ Len(debate_records') = Len(debate_records) + 1 <=> pc = "speaking" ]_vars

\* a second run has added its four records after the first run's four
C29_Witness ==
    /\ runs = 2 /\ pc = "idle"
    /\ Len(debate_records) = 8
    /\ recordsBefore = 4
    /\ debate_records[5].round = 1 /\ debate_records[5].turn = 1

\* ---- the three transcripts
RECURSIVE ResponsesOf(_, _)
\* the responses of the records of the given speakers, in order
ResponsesOf(records, speakers) ==
    IF records = <<>> THEN <<>>
    ELSE (IF Head(records).speaker \in speakers THEN <<Head(records).response>> ELSE <<>>)
            \o ResponsesOf(Tail(records), speakers)
StartsWith(text, prefix) ==
    Len(prefix) <= Len(text) /\ SubSeq(text, 1, Len(prefix)) = prefix

\* C31: in every reachable state of a DebateRecorder bear_history is the
\* newline-joined bear speeches of the history and bull_history the
\* newline-joined bull speeches, every recorded speech is in exactly one of the
\* two, and the three transcripts only grow by appending at their end
C31_TranscriptsFilteredBySpeaker ==
    /\ [] /\ debate_state.history = JoinLines(ResponsesOf(debate_records, Speakers))
          /\ debate_state.bear_history = JoinLines(ResponsesOf(debate_records, {"bear"}))
          /\ debate_state.bull_history = JoinLines(ResponsesOf(debate_records, {"bull"}))
          /\ Len(ResponsesOf(debate_records, {"bear"}))
                + Len(ResponsesOf(debate_records, {"bull"})) = Len(debate_records)
    /\ [][ /\ StartsWith(debate_state'.history, debate_state.history)
           /\ StartsWith(debate_state'.bear_history, debate_state.bear_history)
           /\ StartsWith(debate_state'.bull_history, debate_state.bull_history) ]_vars

\* two runs are over: each persona's transcript has its four speeches
C31_Witness ==
    /\ runs = 2 /\ pc = "idle"
    /\ Len(ResponsesOf(debate_records, {"bear"})) = 4
    /\ Len(ResponsesOf(debate_records, {"bull"})) = 4
    /\ debate_state.bear_history # debate_state.bull_history

\* C33: BearAnalyst.analyze never raises: whichever step inside its try block
\* fails, the derivation of the trading date from the trigger time included,
\* it returns its degraded result with every availability flag False
C33_AnalyzeNeverRaises ==
    (pc # "idle" /\ "bear" \notin todo) =>
       /\ ~analyses["bear"].raised
       /\ ~trigger_ok => /\ analyses["bear"].analysis # <<>>
                         /\ \A p \in Providers : ~analyses["bear"].data_sources[p]

\* C34: the debate_state and debate_records in the result of a completed
\* conduct_debate call keep the values they had when the call returned,
\* whatever runs later on the same DebateRecorder. The result holds the
\* recorder's own two objects (lines 125-126), so what it shows is what they
\* hold now.
C34_ReturnedResultKeepsItsValues ==
    \A i \in 1..Len(returnedThen) :
       /\ debate_state = returnedThen[i].debate_state
       /\ debate_records = returnedThen[i].debate_records

\* C35: in every turn the round and the number of the speech written into
\* the prompt are the round and the position under which the turn is stored
\* in debate_records
C35_PromptRoundIsRecordedRound ==
    \A n \in 1..Len(spoken) :
       /\ turnPrompts[n].round = debate_records[recordsBefore + n].round
       /\ turnPrompts[n].number = recordsBefore + n

\* ---- the previous trading date
\* C38: for every trigger time before 15:30:00 get_smart_trading_date gives
\* what get_previous_trading_date gives, and get_previous_trading_date gives
\* a Monday-to-Friday date for every trigger time
C38_SmartIsPreviousBeforeCutoff ==
    /\ previous_date # <<>> => weekday(previous_date[1]) \in 0..4
    /\ (previous_date # <<>> /\ trade_date # <<>> /\ trigger_date[1].second < Cutoff) =>
          trade_date = previous_date

\* a Monday morning: both functions answered with the Friday before
C38_Witness ==
    /\ previous_date # <<>> /\ trade_date # <<>>
    /\ weekday(trigger_date[1].day) = 0
    /\ trigger_date[1].second < Cutoff
    /\ previous_date[1] = trigger_date[1].day - 3
    /\ trade_date = previous_date

\* ---- the shared news source
\* C32: when two get_data calls run concurrently on the same SinaNewsCrawl
\* instance, the result of each is built only from the items fetched by its
\* own crawl: no item fetched by the other call, and no page's item twice
C32_OnlyItsOwnItems ==
    \A c \in Crawls :
       cpc[c] = "done" =>
          /\ \A i \in 1..Len(frame[c]) : frame[c][i].by = c
          /\ \A i, j \in 1..Len(frame[c]) :
                frame[c][i].page = frame[c][j].page => i = j

\* ---- the cache of processed news
NewsCalled == newsCall # <<>> /\ newsCall[1].df # "empty"
\* the last call returned what an earlier call had produced
ReturnedCached ==
    NewsCalled /\ newsCall[1].out.result.made < newsCall[1].n
\* the age of the batch's file when the last call was made
AgeBefore == (newsCall[1].at - newsCall[1].before[1].mtime) * HalfDay

\* C39: process_news_with_llm returns the cached result of a batch only while
\* the batch's file is younger than 24 hours; an older file is deleted and the
\* batch is processed and saved again; a failure while reading or writing the
\* cache never makes the call fail: it processes the batch or returns the
\* input it was given
C39_CacheExpiresAfterADay ==
    NewsCalled =>
       LET c == newsCall[1] IN
       /\ ReturnedCached =>
             /\ c.before # <<>>
             /\ AgeBefore < CacheExpiry
             /\ c.out.result = c.before[1].content
       /\ (c.before # <<>> /\ AgeBefore < CacheExpiry /\ c.faults = {}
              /\ c.before[1].content # Truncated) => ReturnedCached
       /\ (c.before # <<>> /\ AgeBefore >= CacheExpiry /\ c.faults = {}) =>
             /\ c.out.batches = 1
             /\ c.out.result.made = c.n
             /\ llm_cache_files[c.df] = <<[mtime |-> c.at, content |-> c.out.result]>>
       /\ (c.before # <<>> /\ AgeBefore >= CacheExpiry /\ c.faults = {"save"}) =>
             llm_cache_files[c.df] = <<>>
       /\ ~c.out.raised
       /\ ~ReturnedCached =>
             /\ c.out.result.of = c.df
             /\ c.out.result.made = c.n
             /\ c.out.result.rows = "input" <=> "key" \in c.faults

\* a file written a day ago was found, removed, and the batch processed and
\* saved again
C39_Witness ==
    /\ NewsCalled
    /\ newsCall[1].before # <<>>
    /\ AgeBefore = CacheExpiry
    /\ newsCall[1].faults = {}
    /\ newsCall[1].out.result.made = newsCall[1].n
    /\ llm_cache_files[newsCall[1].df][1].mtime = now

ComprehensiveReturned ==
    cmpc = "idle" /\ cmResult # <<>> /\ ~cmResult[1].raised
NothingAvailable ==
    cmFrames # <<>> /\ \A i \in DOMAIN cmFrames : cmFrames[i] \in {"none", "empty"}

\* C36: in every result of get_comprehensive_analysis data_sources_count is
\* the number of availability flags that are True; when all four sources are
\* unavailable no generation call is issued and the result is the fixed
\* no-data report with count 0; get_quick_market_summary issues no generation
\* call either when both of its sources are unavailable
C36_CountIsTheNumberOfFlags ==
    /\ (ComprehensiveReturned /\ cmFn = "comprehensive") =>
          /\ cmResult[1].data_sources_count =
                Cardinality({i \in DOMAIN cmResult[1].flags : cmResult[1].flags[i]})
          /\ NothingAvailable =>
                /\ cmResult[1].report = "no data"
                /\ cmResult[1].data_sources_count = 0
    /\ NothingAvailable => cmGenCalls = 0
    /\ (ComprehensiveReturned /\ cmFn = "quick" /\ NothingAvailable) =>
          cmResult[1].report = "no data"

\* a comprehensive analysis over two of its four sources
C36_Witness ==
    /\ ComprehensiveReturned /\ cmFn = "comprehensive"
    /\ cmGenCalls = 1
    /\ cmResult[1].data_sources_count = 2
    /\ cmFrames = <<"content", "empty", "none", "content">>

====
